---- MODULE Spec2Model ----
\* Budget automation backend: the candidate store (matched_items), the rule
\* store (matching_rules), the matching engine (services/matcher.ts) and the
\* matching routes (routes/matching.ts).
\*
\* Encoding.  A string is a sequence of one-character strings.  The Cyrillic
\* text of the source is written in Latin transliteration (the stop word
\* 'шт' is <<"s","h","t">>).  A confidence is an integer number of
\* thousandths when it is stored (0.95 is 950) and of millionths while
\* runMatching computes it (0.95 is 950000).
EXTENDS Integers, Sequences, FiniteSets, TLC

\* NULL in a text column, and NULL in an integer column
Null == "null"
NullId == 0

\* ------------------------------------------------------------------------
\* Bounds of the model
\* ------------------------------------------------------------------------
\* matched_items grows without limit: an operation that inserts rows is
\* enabled only while the table stays within MaxRows rows.
MaxRows == 2
\* matching_rules.times_used grows without limit: a learning step is enabled
\* only while the sum of times_used over all rules is below MaxTimesUsed.
MaxTimesUsed == 4

\* ------------------------------------------------------------------------
\* Strings
\* ------------------------------------------------------------------------
UpperChars == <<"A","B","C","D","E","F","G","H","I","J","K","L","M",
                "N","O","P","Q","R","S","T","U","V","W","X","Y","Z">>
LowerChars == <<"a","b","c","d","e","f","g","h","i","j","k","l","m",
                "n","o","p","q","r","s","t","u","v","w","x","y","z">>
DigitChars == {"0","1","2","3","4","5","6","7","8","9"}
SpaceChars == {" ", "\t"}

Range(f) == {f[i] : i \in DOMAIN f}

\* String.prototype.toLowerCase, one character
LowerChar(c) ==
  IF \E i \in 1..Len(UpperChars) : UpperChars[i] = c
  THEN LowerChars[CHOOSE i \in 1..Len(UpperChars) : UpperChars[i] = c]
  ELSE c

toLowerCase(s) == [i \in 1..Len(s) |-> LowerChar(s[i])]

IsSpace(c) == c \in SpaceChars
\* \p{L} or \p{N}
IsLetterOrDigit(c) == c \in Range(LowerChars) \/ c \in Range(UpperChars) \/ c \in DigitChars

RECURSIVE TrimLeft(_)
TrimLeft(s) == IF s # <<>> /\ IsSpace(Head(s)) THEN TrimLeft(Tail(s)) ELSE s

RECURSIVE TrimRight(_)
TrimRight(s) ==
  IF s # <<>> /\ IsSpace(s[Len(s)]) THEN TrimRight(SubSeq(s, 1, Len(s) - 1)) ELSE s

\* String.prototype.trim
trim(s) == TrimRight(TrimLeft(s))

\* s.replace(/[^\p{L}\p{N}\s]/gu, ' ')
ReplacePunctuation(s) ==
  [i \in 1..Len(s) |-> IF IsLetterOrDigit(s[i]) \/ IsSpace(s[i]) THEN s[i] ELSE " "]

\* s.replace(/\s+/g, ' ')
RECURSIVE CollapseWhitespace(_)
CollapseWhitespace(s) ==
  IF s = <<>> THEN <<>>
  ELSE IF IsSpace(Head(s))
       THEN <<" ">> \o CollapseWhitespace(TrimLeft(s))
       ELSE <<Head(s)>> \o CollapseWhitespace(Tail(s))

\* s.replace(/\s+/g, '')
RemoveWhitespace(s) == SelectSeq(s, LAMBDA c : ~IsSpace(c))

\* s.split(' '): the pieces between single spaces, empty pieces included
RECURSIVE SplitFrom(_, _)
SplitFrom(s, cur) ==
  IF s = <<>> THEN <<cur>>
  ELSE IF Head(s) = " " THEN <<cur>> \o SplitFrom(Tail(s), <<>>)
       ELSE SplitFrom(Tail(s), Append(cur, Head(s)))

split(s) == SplitFrom(s, <<>>)

\* words.join(' ')
RECURSIVE join(_)
join(ws) ==
  IF ws = <<>> THEN <<>>
  ELSE IF Len(ws) = 1 THEN ws[1]
       ELSE ws[1] \o <<" ">> \o join(Tail(ws))

STOP_WORDS ==
  { <<"m","m">>, <<"s","m">>, <<"m">>, <<"s","h","t">>, <<"k","g">>, <<"g">>,
    <<"l">>, <<"m","l">>, <<"k","o","m","p","l">>,
    <<"k","o","m","p","l","e","k","t">>, <<"n","a","b","o","r">>,
    <<"e","d">>, <<"p","o","g">>, <<"k","v">>, <<"k","u","b">>, <<"p">>,
    <<"k">>, <<"i">>, <<"v">>, <<"s">>, <<"n","a">>, <<"d","l","y","a">>,
    <<"i","z">>, <<"p","o">>, <<"o","t">>, <<"d","o">> }

\* normalizeForMatching with the stop words removed before the punctuation
normalizeStopWordsFirst(text) ==
  LET s1 == trim(toLowerCase(text))
      words == SelectSeq(split(trim(CollapseWhitespace(s1))),
                         LAMBDA w : Len(w) > 0 /\ w \notin STOP_WORDS)
      s2 == ReplacePunctuation(join(words))
  IN  trim(CollapseWhitespace(s2))

normalizeForMatching(text) ==
  LET s1 == trim(toLowerCase(text))
      s2 == ReplacePunctuation(s1)
      s3 == trim(CollapseWhitespace(s2))
      words == SelectSeq(split(s3), LAMBDA w : Len(w) > 0 /\ w \notin STOP_WORDS)
  IN  join(words)

\* ------------------------------------------------------------------------
\* stringSimilarity.compareTwoStrings (Dice coefficient on character
\* bigrams), as a fraction [num, den]
\* ------------------------------------------------------------------------
Bigram(s, i) == <<s[i], s[i + 1]>>

\* occurrences of bigram b among the first n bigrams of s
RECURSIVE CountBigram(_, _, _)
CountBigram(s, b, n) ==
  IF n = 0 THEN 0
  ELSE CountBigram(s, b, n - 1) + (IF Bigram(s, n) = b THEN 1 ELSE 0)

\* the loop over the bigrams of second: a bigram counts while first still
\* has an unused occurrence of it
RECURSIVE IntersectionSize(_, _, _)
IntersectionSize(first, second, n) ==
  IF n = 0 THEN 0
  ELSE IntersectionSize(first, second, n - 1)
       + (IF CountBigram(second, Bigram(second, n), n)
               <= CountBigram(first, Bigram(second, n), Len(first) - 1)
          THEN 1 ELSE 0)

compareTwoStrings(a, b) ==
  LET first  == RemoveWhitespace(a)
      second == RemoveWhitespace(b)
  IN  IF first = second THEN [num |-> 1, den |-> 1]
      ELSE IF Len(first) < 2 \/ Len(second) < 2 THEN [num |-> 0, den |-> 1]
      ELSE [num |-> 2 * IntersectionSize(first, second, Len(second) - 1),
            den |-> Len(first) + Len(second) - 2]

\* sim >= t / 10
SimAtLeast(sim, t) == 10 * sim.num >= t * sim.den

\* ------------------------------------------------------------------------
\* The stored documents: projects, invoices, specification items and invoice
\* items.  The matching routes only read these tables.
\* ------------------------------------------------------------------------
Projects == {1}

\* invoices: id -> project_id, supplier_id (nullable)
invoices ==
  [i \in {1, 2} |->
     CASE i = 1 -> [project_id |-> 1, supplier_id |-> 1]
       [] i = 2 -> [project_id |-> 1, supplier_id |-> NullId]]

\* specification_items: id -> row
specification_items ==
  [s \in {1} |->
     [id |-> 1, project_id |-> 1,
      name |-> <<"K","a","b","e","l"," ","V","V","G">>,
      characteristics |-> Null,
      equipment_code |-> <<"A","-","1"," ">>,
      unit |-> <<"m">>]]

\* invoice_items: id -> row
invoice_items ==
  [i \in {1, 2} |->
     CASE i = 1 -> [id |-> 1, invoice_id |-> 1, article |-> Null,
                    name |-> <<"k","a","b","e","l",","," ","v","v","g"," ","3">>,
                    unit |-> <<"M"," ">>]
       [] i = 2 -> [id |-> 2, invoice_id |-> 2, article |-> <<"a","-","2">>,
                    name |-> <<"P","r","o","v","o","d"," ","3","x","2">>,
                    unit |-> <<"s","h","t">>]]

\* the ids of: SELECT ... FROM specification_items WHERE project_id = ?
SpecItemsOf(projectId) ==
  {s \in DOMAIN specification_items : specification_items[s].project_id = projectId}

\* the ids of: SELECT ... FROM invoice_items ii JOIN invoices i
\*             ON ii.invoice_id = i.id WHERE i.project_id = ?
InvoiceItemsOf(projectId) ==
  {i \in DOMAIN invoice_items : invoices[invoice_items[i].invoice_id].project_id = projectId}

\* i.supplier_id of the invoice an invoice item belongs to
SupplierOf(invoiceItemId) == invoices[invoice_items[invoiceItemId].invoice_id].supplier_id

\* the rows of a table with the given ids, in rowid order
RECURSIVE RowsInOrder(_, _)
RowsInOrder(table, ids) ==
  IF ids = {} THEN <<>>
  ELSE LET m == CHOOSE x \in ids : \A y \in ids : x <= y
       IN  <<table[m]>> \o RowsInOrder(table, ids \ {m})

\* ------------------------------------------------------------------------
\* Rows for calls of runMatching on other stored documents than the ones
\* above: the specification items and the invoice items a project can hold
\* are lists over these rows, the id of a row being its place in the list.
\* ------------------------------------------------------------------------
\* the longest list of invoice items of such a call
MaxInvoiceItems == 4

SpecRowPool ==
  << [name |-> <<"K","a","b","e","l"," ","V","V","G">>,
      characteristics |-> Null,
      equipment_code |-> <<"A","-","1">>,
      unit |-> <<"m">>],
     [name |-> <<"K","a","b","e","l"," ","V","V","G">>,
      characteristics |-> <<"3","x","2">>,
      equipment_code |-> Null,
      unit |-> <<"m">>] >>

InvoiceRowPool ==
  << [article |-> <<"a","-","1">>,
      name |-> <<"P","r","o","v","o","d"," ","3","x","2">>,
      unit |-> <<"s","h","t">>],
     [article |-> Null,
      name |-> <<"k","a","b","e","l",","," ","v","v","g"," ","3">>,
      unit |-> <<"M"," ">>],
     [article |-> Null,
      name |-> <<"K","a","b","e","l"," ","V","V","G"," ","3","x","2">>,
      unit |-> Null] >>

\* ------------------------------------------------------------------------
\* Tables of normalizeForMatching and compareTwoStrings on the texts of the
\* stored documents, computed once; on any other text the functions
\* themselves are evaluated.
\* ------------------------------------------------------------------------
DocumentTexts ==
  {specification_items[s].name : s \in DOMAIN specification_items}
  \cup {specification_items[s].name \o <<" ">> \o specification_items[s].characteristics :
          s \in {x \in DOMAIN specification_items :
                   specification_items[x].characteristics # Null}}
  \cup {invoice_items[i].name : i \in DOMAIN invoice_items}
  \cup {SpecRowPool[k].name : k \in DOMAIN SpecRowPool}
  \cup {SpecRowPool[k].name \o <<" ">> \o SpecRowPool[k].characteristics :
          k \in {x \in DOMAIN SpecRowPool : SpecRowPool[x].characteristics # Null}}
  \cup {InvoiceRowPool[k].name : k \in DOMAIN InvoiceRowPool}

NormalizedTexts == {normalizeForMatching(t) : t \in DocumentTexts}

normalizeTable == [t \in DocumentTexts \cup NormalizedTexts |-> normalizeForMatching(t)]

compareTable == [p \in NormalizedTexts \X NormalizedTexts |-> compareTwoStrings(p[1], p[2])]

Normalize(text) ==
  IF text \in DOMAIN normalizeTable THEN normalizeTable[text] ELSE normalizeForMatching(text)

Compare(a, b) ==
  IF <<a, b>> \in DOMAIN compareTable THEN compareTable[<<a, b>>] ELSE compareTwoStrings(a, b)

\* ------------------------------------------------------------------------
\* services/matcher.ts: runMatching
\* ------------------------------------------------------------------------
Min(a, b) == IF a <= b THEN a ELSE b

\* a nullable string that is truthy in JavaScript: neither null nor ''
Truthy(str) == str # Null /\ str # <<>>

\* spec.unit && inv.unit && spec.unit.toLowerCase().trim() === inv.unit.toLowerCase().trim()
UnitsMatch(spec, inv) ==
  /\ Truthy(spec.unit)
  /\ Truthy(inv.unit)
  /\ trim(toLowerCase(spec.unit)) = trim(toLowerCase(inv.unit))

\* an exact article tier that compares case-sensitively: what
\* C12_ExactArticleInTopThree rules out
ExactArticleTierCaseSensitive(spec, inv) ==
  IF /\ Truthy(spec.equipment_code)
     /\ Truthy(trim(spec.equipment_code))
     /\ Truthy(inv.article)
     /\ trim(spec.equipment_code) = trim(inv.article)
  THEN [conf |-> 950000, type |-> "exact_article"]
  ELSE [conf |-> 0, type |-> "name_similarity"]

\* tier 1: exact article; the [conf, type] after the tier
ExactArticleTier(spec, inv) ==
  IF /\ Truthy(spec.equipment_code)
     /\ Truthy(trim(spec.equipment_code))
     /\ Truthy(inv.article)
     /\ toLowerCase(trim(spec.equipment_code)) = toLowerCase(trim(inv.article))
  THEN [conf |-> 950000, type |-> "exact_article"]
  ELSE [conf |-> 0, type |-> "name_similarity"]

\* specMatch >= 0.8 && invMatch >= 0.8
RuleQualifies(rule, specNormName, invNormName) ==
  /\ SimAtLeast(Compare(specNormName,
                                  Normalize(rule.specification_pattern)), 8)
  /\ SimAtLeast(Compare(invNormName,
                                  Normalize(rule.invoice_pattern)), 8)

\* Math.min(rule.confidence, 0.95)
RuleConfidence(rule) == Min(rule.confidence * 1000, 950000)

\* tier 2: the loop over the rules; a rule replaces the best only when its
\* confidence is strictly greater, so the loop leaves the greatest qualifying
\* confidence if that exceeds the best before the loop
LearnedRuleTier(best, rules, specNormName, invNormName) ==
  CHOOSE after \in
    {IF best.conf < 950000 /\ \E c \in qualifying : c > best.conf
     THEN [conf |-> CHOOSE c \in qualifying : \A d \in qualifying : d <= c,
           type |-> "learned_rule"]
     ELSE best :
       qualifying \in {{RuleConfidence(rules[k]) :
                          k \in {j \in 1..Len(rules) :
                                   RuleQualifies(rules[j], specNormName, invNormName)}}}} : TRUE

\* tiers 3 and 4: similarity * factor, + 0.05 if the units match, cap 0.94
FuzzyConfidence(sim, factor, spec, inv) ==
  Min((sim.num * factor) \div sim.den + (IF UnitsMatch(spec, inv) THEN 50000 ELSE 0),
      940000)

\* a fuzzy tier that replaces the best whenever its threshold is reached
FuzzyTierReplacing(best, sim, threshold, conf, type) ==
  IF best.conf < 950000 /\ SimAtLeast(sim, threshold)
  THEN [conf |-> conf, type |-> type]
  ELSE best

\* one fuzzy tier: at or above the threshold (in tenths) the similarity gives
\* the confidence conf, which replaces the best when strictly greater
FuzzyTier(best, sim, threshold, conf, type) ==
  IF best.conf < 950000 /\ SimAtLeast(sim, threshold) /\ conf > best.conf
  THEN [conf |-> conf, type |-> type]
  ELSE best

\* tier 3: name similarity
NameSimilarityTier(best, spec, inv, specNormName, invNormName) ==
  CHOOSE after \in
    {FuzzyTier(best, sim[1], 6, sim[2], "name_similarity") :
       sim \in {<<c, FuzzyConfidence(c, 900000, spec, inv)>> :
                  c \in {Compare(specNormName, invNormName)}}} : TRUE

\* tier 4: name + characteristics against the invoice name
NameCharacteristicsTier(best, spec, inv, specNormFull, invNormName) ==
  IF Truthy(spec.characteristics)
  THEN CHOOSE after \in
         {FuzzyTier(best, sim[1], 5, sim[2], "name_characteristics") :
            sim \in {<<c, FuzzyConfidence(c, 800000, spec, inv)>> :
                       c \in {Compare(specNormFull, invNormName)}}} : TRUE
  ELSE best

\* specNormFull
SpecNormFull(spec) ==
  IF Truthy(spec.characteristics)
  THEN Normalize(spec.name \o <<" ">> \o spec.characteristics)
  ELSE Normalize(spec.name)

\* the body of the inner loop: bestConfidence and bestType of one pair; each
\* tier starts from the value the tier before it left
ScorePair(spec, inv, rules) ==
  CHOOSE best \in
    {NameCharacteristicsTier(t3, spec, inv, SpecNormFull(spec), Normalize(inv.name)) :
       t3 \in {NameSimilarityTier(t2, spec, inv, Normalize(spec.name), Normalize(inv.name)) :
         t2 \in {LearnedRuleTier(t1, rules, Normalize(spec.name), Normalize(inv.name)) :
           t1 \in {ExactArticleTier(spec, inv)}}}} : TRUE

\* Math.round(bestConfidence * 1000) / 1000, in thousandths
RoundConfidence(conf) == (conf + 500) \div 1000

\* a push from 0.3 on: what C11_ConfidenceRange rules out
PushCandidateFrom03(spec, inv, best) ==
  IF best.conf >= 300000
  THEN <<[specItemId |-> spec.id,
          invoiceItemId |-> inv.id,
          confidence |-> (best.conf + 500) \div 1000,
          matchType |-> best.type]>>
  ELSE <<>>

\* if (bestConfidence >= 0.4) candidates.push({...}): the candidates one
\* scored pair adds
PushCandidate(spec, inv, best) ==
  IF best.conf >= 400000
  THEN <<[specItemId |-> spec.id,
          invoiceItemId |-> inv.id,
          confidence |-> RoundConfidence(best.conf),
          matchType |-> best.type]>>
  ELSE <<>>

\* the inner loop: the candidates of one specification item, in invoice order
RECURSIVE CandidatesOf(_, _, _)
CandidatesOf(spec, invoiceItems, rules) ==
  IF invoiceItems = <<>> THEN <<>>
  ELSE (CHOOSE pushed \in {PushCandidate(spec, Head(invoiceItems), best) :
                             best \in {ScorePair(spec, Head(invoiceItems), rules)}} : TRUE)
       \o CandidatesOf(spec, Tail(invoiceItems), rules)

\* a sort that puts a candidate before the earlier ones of equal confidence:
\* what C13_TopThreeStable rules out
RECURSIVE InsertSortedTiesFirst(_, _)
InsertSortedTiesFirst(sorted, c) ==
  IF sorted = <<>> THEN <<c>>
  ELSE IF Head(sorted).confidence > c.confidence
       THEN <<Head(sorted)>> \o InsertSortedTiesFirst(Tail(sorted), c)
       ELSE <<c>> \o sorted

\* candidates.sort((a, b) => b.confidence - a.confidence): stable, descending
RECURSIVE InsertSorted(_, _)
InsertSorted(sorted, c) ==
  IF sorted = <<>> THEN <<c>>
  ELSE IF Head(sorted).confidence >= c.confidence
       THEN <<Head(sorted)>> \o InsertSorted(Tail(sorted), c)
       ELSE <<c>> \o sorted

RECURSIVE SortByConfidence(_)
SortByConfidence(cs) ==
  IF cs = <<>> THEN <<>>
  ELSE InsertSorted(SortByConfidence(SubSeq(cs, 1, Len(cs) - 1)), cs[Len(cs)])

\* candidates.slice(0, 3)
TopCandidates(cs) == SubSeq(cs, 1, Min(3, Len(cs)))

\* the outer loop over the specification items
RECURSIVE MatchLoop(_, _, _)
MatchLoop(specItems, invoiceItems, rules) ==
  IF specItems = <<>> THEN <<>>
  ELSE TopCandidates(SortByConfidence(CandidatesOf(Head(specItems), invoiceItems, rules)))
       \o MatchLoop(Tail(specItems), invoiceItems, rules)

\* runMatching on the rule store as it was when the server started: empty
runMatchingOnStartupRules(projectId, rules) ==
  IF SpecItemsOf(projectId) = {} \/ InvoiceItemsOf(projectId) = {} THEN <<>>
  ELSE MatchLoop(RowsInOrder(specification_items, SpecItemsOf(projectId)),
                 RowsInOrder(invoice_items, InvoiceItemsOf(projectId)),
                 <<>>)

runMatching(projectId, rules) ==
  IF SpecItemsOf(projectId) = {} \/ InvoiceItemsOf(projectId) = {} THEN <<>>
  ELSE MatchLoop(RowsInOrder(specification_items, SpecItemsOf(projectId)),
                 RowsInOrder(invoice_items, InvoiceItemsOf(projectId)),
                 rules)

\* ------------------------------------------------------------------------
\* State
\* ------------------------------------------------------------------------
\* A row of matched_items is identified by its position in rowid order: the
\* routes use matched_items.id only to name a row.
VARIABLES
  matched_items,    \* the table matched_items, its rows in rowid order
  matching_rules,   \* the table matching_rules, its rows in rowid order
  pc,               \* how far the matching run in progress is ("idle": none)
  run,              \* the matching run in progress and the table it started from
  call              \* a call of a function of the services: its arguments and
                    \* its result once it has returned (NoCall: none)

vars == <<matched_items, matching_rules, pc, run, call>>

NoRun == [project |-> 0, before |-> <<>>, pending |-> {}]

NoCall == [fn |-> "none"]

Init ==
  /\ matched_items = <<>>
  /\ matching_rules = <<>>
  /\ pc = "idle"
  /\ run = NoRun
  /\ call = NoCall

MatchIds == 1..Len(matched_items)

\* ------------------------------------------------------------------------
\* POST /api/projects/:id/matching/run
\* ------------------------------------------------------------------------
\* a DELETE without the condition is_confirmed = 0: what C1_RunKeepsConfirmed
\* rules out
DeleteOfProject(rows, projectId) ==
  SelectSeq(rows, LAMBDA m : m.specification_item_id \notin SpecItemsOf(projectId))

\* DELETE FROM matched_items WHERE is_confirmed = 0 AND specification_item_id IN
\*   (SELECT id FROM specification_items WHERE project_id = ?)
DeleteUnconfirmed(rows, projectId) ==
  SelectSeq(rows, LAMBDA m : ~(/\ m.is_confirmed = 0
                               /\ m.specification_item_id \in SpecItemsOf(projectId)))

\* the row INSERT ... VALUES (?, ?, ?, ?, 0, 0) adds for a candidate
CandidateRow(c) ==
  [specification_item_id |-> c.specItemId,
   invoice_item_id |-> c.invoiceItemId,
   confidence |-> c.confidence,
   match_type |-> c.matchType,
   is_confirmed |-> 0,
   is_selected |-> 0]

\* insertAll: one INSERT per candidate, in order
InsertAll(rows, candidates) ==
  rows \o [k \in 1..Len(candidates) |-> CandidateRow(candidates[k])]

\* [...new Set(candidates.map(c => c.specItemId))]
SpecIdsOf(candidates) == {candidates[k].specItemId : k \in 1..Len(candidates)}

\* the rows the subquery of selectBest can return: SELECT id FROM matched_items
\* WHERE specification_item_id = ? AND is_confirmed = 0 ORDER BY confidence DESC
\* LIMIT 1 (the order among rows of equal confidence is not specified)
SelectBestTargets(rows, specId) ==
  {k \in 1..Len(rows) :
     /\ rows[k].specification_item_id = specId
     /\ rows[k].is_confirmed = 0
     /\ \A j \in 1..Len(rows) :
          (rows[j].specification_item_id = specId /\ rows[j].is_confirmed = 0)
            => rows[j].confidence <= rows[k].confidence}

\* UPDATE matched_items SET is_selected = 1 WHERE id = ?
SetSelected(rows, matchId) ==
  [k \in 1..Len(rows) |-> IF k = matchId THEN [rows[k] EXCEPT !.is_selected = 1] ELSE rows[k]]

\* the tables the loop of selectBest statements over specIds can leave, one
\* for each way the subqueries resolve equal confidences
RECURSIVE SelectBestLoop(_, _)
SelectBestLoop(rows, specIds) ==
  IF specIds = {} THEN {rows}
  ELSE LET s == CHOOSE x \in specIds : \A y \in specIds : x <= y
       IN  UNION {SelectBestLoop(SetSelected(rows, t), specIds \ {s}) :
                    t \in SelectBestTargets(rows, s)}

\* the whole handler, run to completion
MatchingRun(projectId) ==
  /\ pc = "idle"
  /\ \E candidates \in {runMatching(projectId, matching_rules)} :
       /\ Len(DeleteUnconfirmed(matched_items, projectId)) + Len(candidates) <= MaxRows
       /\ matched_items' \in
            SelectBestLoop(InsertAll(DeleteUnconfirmed(matched_items, projectId), candidates),
                           SpecIdsOf(candidates))
  /\ UNCHANGED <<matching_rules, pc, run>>
  /\ UNCHANGED call

\* ------------------------------------------------------------------------
\* The rule learner of the confirmation routes
\* ------------------------------------------------------------------------
\* a lookup that compares the scope with supplier_id = ? alone, under which
\* NULL equals nothing: what C9_RuleTripleUnique rules out
RuleLookupByEquality(rules, specPattern, invoicePattern, supplierId) ==
  {k \in 1..Len(rules) :
     /\ rules[k].specification_pattern = specPattern
     /\ rules[k].invoice_pattern = invoicePattern
     /\ supplierId # NullId
     /\ rules[k].supplier_id = supplierId}

\* a lookup by the two patterns alone, whatever the scope of the rule
RuleLookupAnyScope(rules, specPattern, invoicePattern, supplierId) ==
  {k \in 1..Len(rules) :
     /\ rules[k].specification_pattern = specPattern
     /\ rules[k].invoice_pattern = invoicePattern}

\* the rows accepted by: SELECT id FROM matching_rules WHERE
\* specification_pattern = ? AND invoice_pattern = ? AND
\* (supplier_id = ? OR (supplier_id IS NULL AND ? IS NULL))
RuleLookup(rules, specPattern, invoicePattern, supplierId) ==
  {k \in 1..Len(rules) :
     /\ rules[k].specification_pattern = specPattern
     /\ rules[k].invoice_pattern = invoicePattern
     /\ \/ (supplierId # NullId /\ rules[k].supplier_id = supplierId)
        \/ (rules[k].supplier_id = NullId /\ supplierId = NullId)}

\* .get(): the first accepted row, or 0 for undefined
ExistingRule(rules, specPattern, invoicePattern, supplierId) ==
  IF RuleLookup(rules, specPattern, invoicePattern, supplierId) = {} THEN 0
  ELSE CHOOSE k \in RuleLookup(rules, specPattern, invoicePattern, supplierId) :
         \A j \in RuleLookup(rules, specPattern, invoicePattern, supplierId) : k <= j

\* INSERT INTO matching_rules (specification_pattern, invoice_pattern,
\*   confidence, times_used, supplier_id) VALUES (?, ?, confidence, 1, ?)
InsertRule(rules, specPattern, invoicePattern, confidence, supplierId) ==
  Append(rules, [specification_pattern |-> specPattern,
                 invoice_pattern |-> invoicePattern,
                 confidence |-> confidence,
                 times_used |-> 1,
                 supplier_id |-> supplierId])

\* an exact update without MIN(1.0, ...): what C6_ExactConfirmLearns rules out
LearnExactUncapped(rules, specPattern, invoicePattern, supplierId) ==
  IF ExistingRule(rules, specPattern, invoicePattern, supplierId) # 0
  THEN [rules EXCEPT
          ![ExistingRule(rules, specPattern, invoicePattern, supplierId)] =
             [@ EXCEPT !.times_used = @ + 1, !.confidence = @ + 20]]
  ELSE InsertRule(rules, specPattern, invoicePattern, 900, supplierId)

\* confirm: UPDATE matching_rules SET times_used = times_used + 1,
\*            confidence = MIN(1.0, confidence + 0.02) WHERE id = ?
\*          or INSERT ... VALUES (?, ?, 0.9, 1, ?)
LearnExact(rules, specPattern, invoicePattern, supplierId) ==
  IF ExistingRule(rules, specPattern, invoicePattern, supplierId) # 0
  THEN [rules EXCEPT
          ![ExistingRule(rules, specPattern, invoicePattern, supplierId)] =
             [@ EXCEPT !.times_used = @ + 1, !.confidence = Min(1000, @ + 20)]]
  ELSE InsertRule(rules, specPattern, invoicePattern, 900, supplierId)

\* an analog update that raises the confidence as an exact one does: what
\* C7_AnalogConfirmLearns rules out
LearnAnalogRaising(rules, specPattern, invoicePattern, supplierId) ==
  IF ExistingRule(rules, specPattern, invoicePattern, supplierId) # 0
  THEN [rules EXCEPT
          ![ExistingRule(rules, specPattern, invoicePattern, supplierId)] =
             [@ EXCEPT !.times_used = @ + 1, !.confidence = Min(1000, @ + 20)]]
  ELSE InsertRule(rules, specPattern, invoicePattern, 750, supplierId)

\* a manual update that sets the confidence of the rule to 0.95: what
\* C8_RuleConfidenceMonotone rules out
LearnManualResetting(rules, specPattern, invoicePattern, supplierId) ==
  IF ExistingRule(rules, specPattern, invoicePattern, supplierId) # 0
  THEN [rules EXCEPT
          ![ExistingRule(rules, specPattern, invoicePattern, supplierId)] =
             [@ EXCEPT !.times_used = @ + 1, !.confidence = 950]]
  ELSE InsertRule(rules, specPattern, invoicePattern, 950, supplierId)

\* confirm-analog: UPDATE matching_rules SET times_used = times_used + 1 WHERE id = ?
\*                 or INSERT ... VALUES (?, ?, 0.75, 1, ?)
LearnAnalog(rules, specPattern, invoicePattern, supplierId) ==
  IF ExistingRule(rules, specPattern, invoicePattern, supplierId) # 0
  THEN [rules EXCEPT
          ![ExistingRule(rules, specPattern, invoicePattern, supplierId)].times_used = @ + 1]
  ELSE InsertRule(rules, specPattern, invoicePattern, 750, supplierId)

\* manual-match: UPDATE matching_rules SET times_used = times_used + 1 WHERE id = ?
\*               or INSERT ... VALUES (?, ?, 0.95, 1, ?)
LearnManual(rules, specPattern, invoicePattern, supplierId) ==
  IF ExistingRule(rules, specPattern, invoicePattern, supplierId) # 0
  THEN [rules EXCEPT
          ![ExistingRule(rules, specPattern, invoicePattern, supplierId)].times_used = @ + 1]
  ELSE InsertRule(rules, specPattern, invoicePattern, 950, supplierId)

\* the sum of times_used over the rules
RECURSIVE TotalTimesUsed(_)
TotalTimesUsed(rules) ==
  IF rules = <<>> THEN 0 ELSE Head(rules).times_used + TotalTimesUsed(Tail(rules))

\* the model's bound on learning: one more learning step is allowed
WithinTimesUsed(rules) == TotalTimesUsed(rules) < MaxTimesUsed

\* UPDATE matched_items SET is_selected = 0 WHERE specification_item_id = ?
Deselect(rows, specId) ==
  [k \in 1..Len(rows) |->
     IF rows[k].specification_item_id = specId
     THEN [rows[k] EXCEPT !.is_selected = 0] ELSE rows[k]]

\* UPDATE matched_items SET is_confirmed = 1, is_selected = 1 WHERE id = ?
ConfirmAndSelect(rows, matchId) ==
  [k \in 1..Len(rows) |->
     IF k = matchId
     THEN [rows[k] EXCEPT !.is_confirmed = 1, !.is_selected = 1] ELSE rows[k]]

\* normalizeForMatching(match.spec_name), normalizeForMatching(match.invoice_name)
SpecPatternOf(specId) == Normalize(specification_items[specId].name)
InvoicePatternOf(invId) == Normalize(invoice_items[invId].name)

\* PUT /api/matching/:id/confirm
Confirm(matchId) ==
  /\ pc = "idle"
  /\ matchId \in MatchIds
  /\ WithinTimesUsed(matching_rules)
  /\ matched_items' =
       ConfirmAndSelect(Deselect(matched_items, matched_items[matchId].specification_item_id),
                        matchId)
  /\ matching_rules' =
       LearnExact(matching_rules,
                  SpecPatternOf(matched_items[matchId].specification_item_id),
                  InvoicePatternOf(matched_items[matchId].invoice_item_id),
                  SupplierOf(matched_items[matchId].invoice_item_id))
  /\ UNCHANGED <<pc, run>>
  /\ UNCHANGED call

\* POST /api/matching/:id/confirm-analog
ConfirmAnalog(matchId) ==
  /\ pc = "idle"
  /\ matchId \in MatchIds
  /\ WithinTimesUsed(matching_rules)
  /\ matched_items' =
       ConfirmAndSelect(Deselect(matched_items, matched_items[matchId].specification_item_id),
                        matchId)
  /\ matching_rules' =
       LearnAnalog(matching_rules,
                   SpecPatternOf(matched_items[matchId].specification_item_id),
                   InvoicePatternOf(matched_items[matchId].invoice_item_id),
                   SupplierOf(matched_items[matchId].invoice_item_id))
  /\ UNCHANGED <<pc, run>>
  /\ UNCHANGED call

\* DELETE FROM matched_items WHERE id = ?
DeleteRow(rows, matchId) ==
  SubSeq(rows, 1, matchId - 1) \o SubSeq(rows, matchId + 1, Len(rows))

\* DELETE /api/matching/:id
Reject(matchId) ==
  /\ pc = "idle"
  /\ matchId \in MatchIds
  /\ matched_items' = DeleteRow(matched_items, matchId)
  /\ UNCHANGED <<matching_rules, pc, run>>
  /\ UNCHANGED call

\* a selection that leaves the other candidates of the specification item as
\* they are: what C25_SelectOnlySelects rules out
SelectKeepingOthers(matchId) ==
  /\ pc = "idle"
  /\ matchId \in MatchIds
  /\ matched_items' = SetSelected(matched_items, matchId)
  /\ UNCHANGED <<matching_rules, pc, run>>
  /\ UNCHANGED call

\* PUT /api/matching/select/:id
Select(matchId) ==
  /\ pc = "idle"
  /\ matchId \in MatchIds
  /\ matched_items' =
       SetSelected(Deselect(matched_items, matched_items[matchId].specification_item_id),
                   matchId)
  /\ UNCHANGED <<matching_rules, pc, run>>
  /\ UNCHANGED call

\* SELECT id FROM matched_items WHERE specification_item_id = ? AND
\* invoice_item_id = ?, .get(): the first such row, or 0 for undefined
ExistingMatch(rows, specItemId, invoiceItemId) ==
  IF \E k \in 1..Len(rows) : /\ rows[k].specification_item_id = specItemId
                             /\ rows[k].invoice_item_id = invoiceItemId
  THEN CHOOSE k \in 1..Len(rows) :
         /\ rows[k].specification_item_id = specItemId
         /\ rows[k].invoice_item_id = invoiceItemId
         /\ \A j \in 1..(k - 1) : ~(/\ rows[j].specification_item_id = specItemId
                                    /\ rows[j].invoice_item_id = invoiceItemId)
  ELSE 0

\* the row INSERT ... VALUES (?, ?, 1.0, 'manual', 1, 1) adds
ManualRow(specItemId, invoiceItemId) ==
  [specification_item_id |-> specItemId,
   invoice_item_id |-> invoiceItemId,
   confidence |-> 1000,
   match_type |-> "manual",
   is_confirmed |-> 1,
   is_selected |-> 1]

\* POST /api/projects/:id/manual-match
ManualMatch(projectId, specItemId, invoiceItemId) ==
  /\ pc = "idle"
  /\ specItemId \in SpecItemsOf(projectId)
  /\ invoiceItemId \in InvoiceItemsOf(projectId)
  /\ IF ExistingMatch(matched_items, specItemId, invoiceItemId) # 0
     THEN /\ matched_items' =
               ConfirmAndSelect(Deselect(matched_items, specItemId),
                                ExistingMatch(matched_items, specItemId, invoiceItemId))
          /\ UNCHANGED matching_rules
     ELSE /\ Len(matched_items) < MaxRows
          /\ WithinTimesUsed(matching_rules)
          /\ matched_items' =
               Append(Deselect(matched_items, specItemId),
                      ManualRow(specItemId, invoiceItemId))
          /\ matching_rules' =
               LearnManual(matching_rules, SpecPatternOf(specItemId),
                           InvoicePatternOf(invoiceItemId), SupplierOf(invoiceItemId))
  /\ UNCHANGED <<pc, run>>
  /\ UNCHANGED call

Next ==
  \/ \E p \in Projects : MatchingRun(p)
  \/ \E id \in 1..MaxRows : Confirm(id)
  \/ \E id \in 1..MaxRows : ConfirmAnalog(id)
  \/ \E id \in 1..MaxRows : Reject(id)
  \/ \E id \in 1..MaxRows : Select(id)
  \/ \E p \in Projects, s \in DOMAIN specification_items, i \in DOMAIN invoice_items :
       ManualMatch(p, s, i)

Spec == Init /\ [][Next]_vars

\* ------------------------------------------------------------------------
\* The matching run statement by statement, with the process stopping
\* between two statements.  better-sqlite3 runs every statement outside
\* db.transaction in its own implicit transaction: the DELETE, the insertAll
\* transaction and each selectBest UPDATE commit separately.  The handler is
\* synchronous, so no other request runs between its statements.
\* ------------------------------------------------------------------------
\* the DELETE of the unconfirmed candidates has committed
RunDelete(projectId) ==
  /\ pc = "idle"
  /\ Len(DeleteUnconfirmed(matched_items, projectId))
       + Len(runMatching(projectId, matching_rules)) <= MaxRows
  /\ matched_items' = DeleteUnconfirmed(matched_items, projectId)
  /\ run' = [project |-> projectId, before |-> matched_items, pending |-> {}]
  /\ pc' = "deleted"
  /\ UNCHANGED matching_rules
  /\ UNCHANGED call

\* runMatching has returned and the insertAll transaction has committed
RunInsert ==
  /\ pc = "deleted"
  /\ \E candidates \in {runMatching(run.project, matching_rules)} :
       /\ matched_items' = InsertAll(matched_items, candidates)
       /\ run' = [run EXCEPT !.pending = SpecIdsOf(candidates)]
  /\ pc' = "inserted"
  /\ UNCHANGED matching_rules
  /\ UNCHANGED call

\* one selectBest.run(specId) has committed
RunSelectBest ==
  /\ pc = "inserted"
  /\ run.pending # {}
  /\ \E s \in {x \in run.pending : \A y \in run.pending : x <= y} :
       /\ \E t \in SelectBestTargets(matched_items, s) :
            matched_items' = SetSelected(matched_items, t)
       /\ run' = [run EXCEPT !.pending = @ \ {s}]
  /\ UNCHANGED <<matching_rules, pc>>
  /\ UNCHANGED call

\* res.json(...): the handler returns
RunRespond ==
  /\ pc = "inserted"
  /\ run.pending = {}
  /\ pc' = "idle"
  /\ run' = NoRun
  /\ UNCHANGED <<matched_items, matching_rules>>
  /\ UNCHANGED call

\* the process stops during the run; the database keeps what has committed
Crash ==
  /\ pc \in {"deleted", "inserted"}
  /\ pc' = "crashed"
  /\ UNCHANGED <<matched_items, matching_rules, run>>
  /\ UNCHANGED call

\* the server is started again on the same database file
Restart ==
  /\ pc = "crashed"
  /\ pc' = "idle"
  /\ run' = NoRun
  /\ UNCHANGED <<matched_items, matching_rules>>
  /\ UNCHANGED call

NextCrash ==
  \/ \E p \in Projects : RunDelete(p)
  \/ RunInsert
  \/ RunSelectBest
  \/ RunRespond
  \/ Crash
  \/ Restart
  \/ \E id \in 1..MaxRows : Confirm(id)
  \/ \E id \in 1..MaxRows : ConfirmAnalog(id)
  \/ \E id \in 1..MaxRows : Reject(id)
  \/ \E id \in 1..MaxRows : Select(id)
  \/ \E p \in Projects, s \in DOMAIN specification_items, i \in DOMAIN invoice_items :
       ManualMatch(p, s, i)

SpecCrash == Init /\ [][NextCrash]_vars

\* ------------------------------------------------------------------------
\* Properties
\* ------------------------------------------------------------------------
IsConfirmed(m) == m.is_confirmed = 1

\* the rows of specification item specId, by position
RowsOfSpec(rows, specId) ==
  {k \in 1..Len(rows) : rows[k].specification_item_id = specId}

\* the matching run in progress has executed its last statement
RunComplete == pc = "inserted" /\ run.pending = {}

\* C1: a matching run for project P leaves every confirmed row in place with
\* the same specification item, invoice item, confidence, match type,
\* is_confirmed and is_selected, and every unconfirmed row of P's
\* specification items that is present after the run is a row this run
\* inserted: it lies behind the rows that were there before and carries a
\* candidate runMatching returned.
C1_RunKeepsConfirmed ==
  RunComplete =>
    /\ SelectSeq(matched_items, IsConfirmed) = SelectSeq(run.before, IsConfirmed)
    /\ \A k \in 1..Len(matched_items) :
         (/\ matched_items[k].is_confirmed = 0
          /\ matched_items[k].specification_item_id \in SpecItemsOf(run.project))
         => /\ k > Len(SelectSeq(run.before, IsConfirmed))
            /\ \E c \in Range(runMatching(run.project, matching_rules)) :
                 [matched_items[k] EXCEPT !.is_selected = 0] = CandidateRow(c)

\* C1 witness: a run has completed on a table that held a confirmed row and
\* an unconfirmed row, and it has inserted a row.
C1_Witness ==
  /\ RunComplete
  /\ \E j, k \in 1..Len(run.before) :
       run.before[j].is_confirmed = 1 /\ run.before[k].is_confirmed = 0
  /\ \E k \in 1..Len(matched_items) : matched_items[k].is_confirmed = 0

\* the rows of specification item specId that are selected, by position
SelectedOf(rows, specId) == {k \in RowsOfSpec(rows, specId) : rows[k].is_selected = 1}

\* the rows of specification item specId that are confirmed, by position
ConfirmedOf(rows, specId) == {k \in RowsOfSpec(rows, specId) : rows[k].is_confirmed = 1}

\* C2: when a matching run has completed, every specification item the run
\* produced a candidate for has exactly one selected row, that row is one the
\* run inserted and no inserted row of the item has a higher confidence; and
\* the confirmed rows are the ones confirmed before the run.
C2_RunSelectsExactlyOne ==
  RunComplete =>
    /\ SelectSeq(matched_items, IsConfirmed) = SelectSeq(run.before, IsConfirmed)
    /\ \A s \in SpecIdsOf(runMatching(run.project, matching_rules)) :
         /\ Cardinality(SelectedOf(matched_items, s)) = 1
         /\ \A k \in SelectedOf(matched_items, s) :
              /\ matched_items[k].is_confirmed = 0
              /\ \A j \in RowsOfSpec(matched_items, s) :
                   matched_items[j].is_confirmed = 0
                     => matched_items[j].confidence <= matched_items[k].confidence

\* C3: each specification item has at most one selected row.
C3_AtMostOneSelected ==
  \A s \in DOMAIN specification_items : Cardinality(SelectedOf(matched_items, s)) <= 1

\* C4: each specification item has at most one confirmed row.
C4_AtMostOneConfirmed ==
  \A s \in DOMAIN specification_items : Cardinality(ConfirmedOf(matched_items, s)) <= 1

\* the tables a matching run of project projectId, run to its end on the
\* table rows, can leave
CompleteRun(rows, projectId, rules) ==
  SelectBestLoop(InsertAll(DeleteUnconfirmed(rows, projectId), runMatching(projectId, rules)),
                 SpecIdsOf(runMatching(projectId, rules)))

\* C5: when the process stops during a matching run, the table is the one
\* before the run or one the complete run leaves.
C5_RunAtomic ==
  pc = "crashed" =>
    \/ matched_items = run.before
    \/ matched_items \in CompleteRun(run.before, run.project, matching_rules)

\* the rules of the pair and supplier scope of the row matchId, by position;
\* the scope NULL is a scope of its own
RulesOfPair(rules, specItemId, invoiceItemId) ==
  {k \in 1..Len(rules) :
     /\ rules[k].specification_pattern = SpecPatternOf(specItemId)
     /\ rules[k].invoice_pattern = InvoicePatternOf(invoiceItemId)
     /\ rules[k].supplier_id = SupplierOf(invoiceItemId)}

\* the rule store after one learning step on the pair: the rule of the pair
\* and scope gets times_used + 1 and its confidence + raise (in thousandths)
\* capped at 1.0, every other rule stays; without such a rule, one rule with
\* the confidence start and times_used 1 is appended
LearnsAs(before, after, specItemId, invoiceItemId, start, raise) ==
  IF RulesOfPair(before, specItemId, invoiceItemId) = {}
  THEN after = Append(before, [specification_pattern |-> SpecPatternOf(specItemId),
                               invoice_pattern |-> InvoicePatternOf(invoiceItemId),
                               confidence |-> start,
                               times_used |-> 1,
                               supplier_id |-> SupplierOf(invoiceItemId)])
  ELSE /\ Len(after) = Len(before)
       /\ \A k \in 1..Len(before) :
            after[k] = IF k \in RulesOfPair(before, specItemId, invoiceItemId)
                       THEN [before[k] EXCEPT !.times_used = @ + 1,
                                              !.confidence = Min(1000, @ + raise)]
                       ELSE before[k]

\* C6: an exact confirmation of a row whose pair and supplier scope has a rule
\* adds 1 to that rule's times_used and sets its confidence to
\* min(1.0, confidence + 0.02); without such a rule it inserts one rule with
\* confidence 0.9 and times_used 1; no other rule changes.
C6_ExactConfirmLearns ==
  [][\A id \in 1..MaxRows :
       Confirm(id) => LearnsAs(matching_rules, matching_rules',
                               matched_items[id].specification_item_id,
                               matched_items[id].invoice_item_id, 900, 20)]_vars

\* C6 witness: exact confirmations have raised a rule up to the cap.
C6_Witness ==
  \E k \in 1..Len(matching_rules) :
    matching_rules[k].confidence = 1000 /\ matching_rules[k].times_used >= 2

\* C7: an analog confirmation of a pair without a rule inserts a rule with
\* confidence 0.75 and times_used 1; an analog confirmation of a pair and
\* scope that has a rule leaves the rule's confidence and adds 1 to its
\* times_used.
C7_AnalogConfirmLearns ==
  [][\A id \in 1..MaxRows :
       ConfirmAnalog(id) => LearnsAs(matching_rules, matching_rules',
                                     matched_items[id].specification_item_id,
                                     matched_items[id].invoice_item_id, 750, 0)]_vars

\* C7 witness: a rule inserted by an analog confirmation has been used again
\* and still has the confidence 0.75.
C7_Witness ==
  \E k \in 1..Len(matching_rules) :
    matching_rules[k].confidence = 750 /\ matching_rules[k].times_used >= 3

\* C8: in every step every rule stays in the store with a confidence and a
\* times_used that are not smaller than before, and every rule of the store
\* has a confidence of at most 1.0 and a times_used of at least 1.
C8_RuleConfidenceMonotone ==
  [][/\ Len(matching_rules') >= Len(matching_rules)
     /\ \A k \in 1..Len(matching_rules) :
          /\ matching_rules'[k].confidence >= matching_rules[k].confidence
          /\ matching_rules'[k].times_used >= matching_rules[k].times_used
     /\ \A k \in 1..Len(matching_rules') :
          /\ matching_rules'[k].confidence <= 1000
          /\ matching_rules'[k].times_used >= 1]_vars

\* C8 witness: a rule inserted by an analog confirmation has been raised by
\* an exact confirmation and used a third time.
C8_Witness ==
  \E k \in 1..Len(matching_rules) :
    matching_rules[k].confidence = 770 /\ matching_rules[k].times_used = 3

\* C9: no two rules have the same specification pattern, invoice pattern and
\* supplier scope, NULL being a scope of its own.
C9_RuleTripleUnique ==
  \A j, k \in 1..Len(matching_rules) :
    (/\ matching_rules[j].specification_pattern = matching_rules[k].specification_pattern
     /\ matching_rules[j].invoice_pattern = matching_rules[k].invoice_pattern
     /\ matching_rules[j].supplier_id = matching_rules[k].supplier_id)
    => j = k

\* C9 witness: a rule of the scope NULL has been found again by a later
\* confirmation, next to a rule of a supplier's scope.
C9_Witness ==
  \E j, k \in 1..Len(matching_rules) :
    /\ matching_rules[j].supplier_id = NullId
    /\ matching_rules[j].times_used >= 2
    /\ matching_rules[k].supplier_id # NullId

\* C10: every manual match changes the rule store as an exact confirmation
\* of the pair with the starting confidence 0.95 does, also when it reuses a
\* stored row of the pair.
C10_ManualLearnsAsExact ==
  [][\A p \in Projects, s \in DOMAIN specification_items, i \in DOMAIN invoice_items :
       ManualMatch(p, s, i) => LearnsAs(matching_rules, matching_rules', s, i, 950, 20)]_vars

\* ------------------------------------------------------------------------
\* Calls of runMatching on any stored documents and rules
\* ------------------------------------------------------------------------
\* a row of a pool as the row with rowid id
WithId(row, id) == [f \in DOMAIN row \cup {"id"} |-> IF f = "id" THEN id ELSE row[f]]

\* a stored rule
StoredRule(specName, invoiceName, confidence) ==
  [specification_pattern |-> Normalize(specName),
   invoice_pattern |-> Normalize(invoiceName),
   confidence |-> confidence,
   times_used |-> 1,
   supplier_id |-> NullId]

\* the contents of matching_rules of the calls: rule confidences from 0 to 1
RuleStores ==
  << <<>>,
     <<StoredRule(SpecRowPool[1].name, InvoiceRowPool[1].name, 0)>>,
     <<StoredRule(SpecRowPool[1].name, InvoiceRowPool[1].name, 399)>>,
     <<StoredRule(SpecRowPool[1].name, InvoiceRowPool[1].name, 400)>>,
     <<StoredRule(SpecRowPool[1].name, InvoiceRowPool[1].name, 1000)>>,
     <<StoredRule(SpecRowPool[1].name, InvoiceRowPool[1].name, 400),
       StoredRule(SpecRowPool[1].name, InvoiceRowPool[2].name, 1000)>> >>

\* the lists of specification items of the calls, as places in SpecRowPool
SpecLists == {<<1>>, <<2>>, <<2, 1>>}

\* the lists of invoice items of the calls, as places in InvoiceRowPool
InvoiceLists == UNION {[1..n -> DOMAIN InvoiceRowPool] : n \in 0..MaxInvoiceItems}

\* specItems and invoiceItems of a call, in load order
CallSpecItems(c) == [j \in 1..Len(c.specs) |-> WithId(SpecRowPool[c.specs[j]], j)]
CallInvoiceItems(c) == [j \in 1..Len(c.invoices) |-> WithId(InvoiceRowPool[c.invoices[j]], j)]

\* runMatching once the three queries have returned specItems, invoiceItems
\* and rules
runMatchingOn(specItems, invoiceItems, rules) ==
  IF specItems = <<>> \/ invoiceItems = <<>> THEN <<>>
  ELSE MatchLoop(specItems, invoiceItems, rules)

MatcherInit ==
  /\ matched_items = <<>>
  /\ matching_rules = <<>>
  /\ pc = "idle"
  /\ run = NoRun
  /\ call \in {[fn |-> "runMatching", specs |-> ss, invoices |-> ii, rules |-> r,
                returned |-> FALSE, result |-> <<>>] :
                 ss \in SpecLists, ii \in InvoiceLists, r \in DOMAIN RuleStores}

RunMatchingReturns ==
  /\ call.fn = "runMatching"
  /\ ~call.returned
  /\ call' = [call EXCEPT !.returned = TRUE,
                          !.result = runMatchingOn(CallSpecItems(call), CallInvoiceItems(call),
                                                   RuleStores[call.rules])]
  /\ UNCHANGED <<matched_items, matching_rules, pc, run>>

NextMatcher == RunMatchingReturns

SpecMatcher == MatcherInit /\ [][NextMatcher]_vars

\* a call of runMatching has returned
MatchingReturned == call.fn = "runMatching" /\ call.returned

\* C11: every candidate runMatching returns has a confidence that is a whole
\* number of thousandths from 0.4 to 1.0.
C11_ConfidenceRange ==
  MatchingReturned =>
    \A k \in 1..Len(call.result) : call.result[k].confidence \in 400..1000

\* C11 witness: runMatching has returned a candidate of confidence 0.4 from a
\* rule and a candidate whose confidence was rounded.
C11_Witness ==
  /\ MatchingReturned
  /\ \E k \in 1..Len(call.result) :
       call.result[k].confidence = 400 /\ call.result[k].matchType = "learned_rule"
  /\ \E k \in 1..Len(call.result) :
       /\ call.result[k].matchType = "name_similarity"
       /\ call.result[k].confidence * 1000
            # ScorePair(CallSpecItems(call)[call.result[k].specItemId],
                        CallInvoiceItems(call)[call.result[k].invoiceItemId],
                        RuleStores[call.rules]).conf

\* the equipment code and the article are both present and equal
\* case-insensitively
ArticlesEqual(spec, inv) ==
  /\ Truthy(spec.equipment_code)
  /\ Truthy(inv.article)
  /\ toLowerCase(spec.equipment_code) = toLowerCase(inv.article)

\* the candidate with matchType exact_article and confidence 0.95 of a pair
ExactArticleCandidate(specItemId, invoiceItemId) ==
  [specItemId |-> specItemId, invoiceItemId |-> invoiceItemId,
   confidence |-> 950, matchType |-> "exact_article"]

IsNameBased(c) == c.matchType \in {"name_similarity", "name_characteristics"}

\* every name-based candidate has a confidence of at most 0.94
NameBasedCapped(result) ==
  \A k \in 1..Len(result) : IsNameBased(result[k]) => result[k].confidence <= 940

\* C12 as stated: runMatching returns the exact_article candidate of
\* confidence 0.95 for every pair whose equipment code and article are present
\* and equal case-insensitively, and every name-based candidate has a
\* confidence of at most 0.94.
C12_ExactArticleAlwaysReturned ==
  MatchingReturned =>
    /\ \A s \in DOMAIN CallSpecItems(call), i \in DOMAIN CallInvoiceItems(call) :
         ArticlesEqual(CallSpecItems(call)[s], CallInvoiceItems(call)[i])
           => ExactArticleCandidate(s, i) \in Range(call.result)
    /\ NameBasedCapped(call.result)

\* C12 amended: for every such pair runMatching returns the exact_article
\* candidate of confidence 0.95 unless three candidates of confidence 0.95 of
\* the same specification item and of earlier invoice items are returned;
\* every name-based candidate has a confidence of at most 0.94 and comes
\* after the exact_article candidates of its specification item.
C12_ExactArticleInTopThree ==
  MatchingReturned =>
    /\ \A s \in DOMAIN CallSpecItems(call), i \in DOMAIN CallInvoiceItems(call) :
         ArticlesEqual(CallSpecItems(call)[s], CallInvoiceItems(call)[i])
           => \/ ExactArticleCandidate(s, i) \in Range(call.result)
              \/ Cardinality({k \in 1..Len(call.result) :
                                /\ call.result[k].specItemId = s
                                /\ call.result[k].confidence = 950
                                /\ call.result[k].invoiceItemId < i}) = 3
    /\ NameBasedCapped(call.result)
    /\ \A j, k \in 1..Len(call.result) :
         (/\ call.result[j].specItemId = call.result[k].specItemId
          /\ call.result[j].matchType = "exact_article"
          /\ IsNameBased(call.result[k]))
         => j < k

\* C12 witness: runMatching has returned the exact_article candidate of a
\* pair that a stored rule of confidence 1.0 covers, before a name-based
\* candidate of the same specification item.
C12_Witness ==
  /\ MatchingReturned
  /\ \E r \in 1..Len(RuleStores[call.rules]) : RuleStores[call.rules][r].confidence = 1000
  /\ \E j, k \in 1..Len(call.result) :
       /\ j < k
       /\ call.result[j].specItemId = call.result[k].specItemId
       /\ call.result[j].matchType = "exact_article"
       /\ IsNameBased(call.result[k])
       /\ RuleQualifies(RuleStores[call.rules][1],
                        Normalize(CallSpecItems(call)[call.result[j].specItemId].name),
                        Normalize(CallInvoiceItems(call)[call.result[j].invoiceItemId].name))

\* the candidates the inner loop retains for the specification item at place
\* s of the call, in evaluation order
Retained(s) ==
  CandidatesOf(CallSpecItems(call)[s], CallInvoiceItems(call), RuleStores[call.rules])

\* the candidates of that specification item in the result, in result order
ReturnedOf(s) == SelectSeq(call.result, LAMBDA c : c.specItemId = s)

\* candidate a ranks before candidate b of the same specification item: a
\* higher confidence, or the same confidence and an earlier invoice item
RanksBefore(a, b) ==
  \/ a.confidence > b.confidence
  \/ (a.confidence = b.confidence /\ a.invoiceItemId < b.invoiceItemId)

\* C13: for each specification item runMatching returns at most 3 of the
\* retained candidates, in ranking order, and every retained candidate it
\* omits ranks after every one it returns: a lower confidence, or the same
\* confidence and a later invoice item.
C13_TopThreeStable ==
  MatchingReturned =>
    \A s \in DOMAIN CallSpecItems(call) :
      \A all \in {Retained(s)}, ret \in {ReturnedOf(s)} :
        /\ Len(ret) = Min(3, Len(all))
        /\ Range(ret) \subseteq Range(all)
        /\ \A j, k \in 1..Len(ret) : j < k => RanksBefore(ret[j], ret[k])
        /\ \A o \in Range(all) \ Range(ret), r \in Range(ret) : RanksBefore(r, o)

\* C13 witness: a specification item had more than 3 retained candidates and
\* runMatching has omitted one with the confidence of one it returned.
C13_Witness ==
  /\ MatchingReturned
  /\ \E s \in DOMAIN CallSpecItems(call) :
       /\ Len(Retained(s)) > 3
       /\ \E o \in Range(Retained(s)) \ Range(ReturnedOf(s)), r \in Range(ReturnedOf(s)) :
            o.confidence = r.confidence

\* ------------------------------------------------------------------------
\* Table parsing: services/pdfParser.ts (invoices) and
\* services/excelParser.ts (specifications).  A grid is a sequence of rows,
\* a row a sequence of cells, a cell a string; rows and columns are counted
\* from 0 as in the code, so row i of the code is rows[i + 1] here.  A
\* nullable column or result is a sequence: <<>> for null, <<v>> for v.
\* Cyrillic keywords and cells are written in Latin transliteration.
\* ------------------------------------------------------------------------
COLUMN_KEYWORDS ==
  [ article |->
     << <<"a","r","t","i","k","u","l">>,
        <<"a","r","t","i","c","l","e">>,
        <<"k","o","d">>,
        <<"a","r","t",".">>,
        <<"a","r","t">>,
        <<"k","o","d"," ","t","o","v","a","r","a">>,
        <<"k","a","t","a","l","o","z","h","n","y","j"," ","n","o","m","e","r">>,
        <<"n","o","m","e","n","k","l","a","t","u","r","n","y","j"," ","n","o","m","e","r">> >>,
    name |->
     << <<"n","a","i","m","e","n","o","v","a","n","i","e">>,
        <<"t","o","v","a","r">>,
        <<"n","a","z","v","a","n","i","e">>,
        <<"o","p","i","s","a","n","i","e">>,
        <<"n","o","m","e","n","k","l","a","t","u","r","a">>,
        <<"t","o","v","a","r","/","u","s","l","u","g","a">>,
        <<"m","a","t","e","r","i","a","l">>,
        <<"p","r","o","d","u","k","c","i","y","a">>,
        <<"t","o","v","a","r","y">> >>,
    quantity |->
     << <<"k","o","l","i","c","h","e","s","t","v","o">>,
        <<"k","o","l","-","v","o">>,
        <<"q","t","y">>,
        <<"k","o","l",".">>,
        <<"k","o","l">> >>,
    price |->
     << <<"c","e","n","a">>,
        <<"p","r","i","c","e">>,
        <<"c","e","n","a"," ","z","a"," ","e","d">>,
        <<"c","e","n","a"," ","s"," ","n","d","s">>,
        <<"c","e","n","a"," ","s"," ","u","c","h","e","t","o","m"," ","n","d","s">>,
        <<"s","t","o","i","m","o","s","t"," ","z","a"," ","e","d">>,
        <<"c","e","n","a"," ","z","a"," ","e","d","i","n","i","c","u">> >>,
    amount |->
     << <<"s","u","m","m","a">>,
        <<"t","o","t","a","l">>,
        <<"s","t","o","i","m","o","s","t">>,
        <<"i","t","o","g","o">>,
        <<"s","u","m","m","a"," ","s"," ","n","d","s">>,
        <<"v","s","e","g","o"," ","s"," ","n","d","s">>,
        <<"s","u","m","m","a"," ","s"," ","u","c","h","y","o","t","o","m"," ","n","d","s">> >>,
    unit |->
     << <<"e","d",".">>,
        <<"u","n","i","t">>,
        <<"e","d","."," ","i","z","m">>,
        <<"e","d","i","n","i","c","a">>,
        <<"i","z","m">>,
        <<"e","d","."," ","i","z","m","e","r","e","n","i","y","a">>,
        <<"e","d",".","i","z","m",".">>,
        <<"e","d",".","i","z","m">> >> ]

HEADER_KEYWORDS ==
  [ position_number |->
     << <<"N">>,
        <<"p","/","p">>,
        <<"p","o","z">>,
        <<"n","o","m","e","r">> >>,
    name |->
     << <<"n","a","i","m","e","n","o","v","a","n","i","e">>,
        <<"n","a","z","v","a","n","i","e">>,
        <<"t","o","v","a","r">>,
        <<"m","a","t","e","r","i","a","l">> >>,
    characteristics |->
     << <<"h","a","r","a","k","t","e","r","i","s","t","i","k">>,
        <<"o","p","i","s","a","n","i","e">>,
        <<"p","a","r","a","m","e","t","r">> >>,
    equipment_code |->
     << <<"k","o","d">>,
        <<"a","r","t","i","k","u","l">>,
        <<"a","r","t","i","c","l","e">> >>,
    manufacturer |->
     << <<"p","r","o","i","z","v","o","d","i","t","e","l">>,
        <<"b","r","e","n","d">>,
        <<"m","a","r","k","a">>,
        <<"z","a","v","o","d">> >>,
    unit |->
     << <<"e","d">>,
        <<"e","d","i","n","i","c">>,
        <<"i","z","m">> >>,
    quantity |->
     << <<"k","o","l">>,
        <<"k","o","l","i","c","h","e","s","t","v">>,
        <<"q","t","y">>,
        <<"o","b","y","o","m">>,
        <<"o","b","e","m">> >> ]

\* Object.entries(COLUMN_KEYWORDS) and Object.entries(HEADER_KEYWORDS): the
\* fields in the order of the object literal
COLUMN_FIELDS == <<"article", "name", "quantity", "price", "amount", "unit">>

HEADER_FIELDS ==
  <<"position_number", "name", "characteristics", "equipment_code",
    "manufacturer", "unit", "quantity">>

\* the mapping every scanned row starts with: every field null
EmptyMapping(fields) == [f \in Range(fields) |-> <<>>]

\* normalizeText on a string
normalizeText(text) == trim(toLowerCase(text))

\* String.prototype.includes
Includes(text, keyword) ==
  \E i \in 0..(Len(text) - Len(keyword)) : SubSeq(text, i + 1, i + Len(keyword)) = keyword

\* the loop over the fields for one cell: a field that is still null and has
\* a keyword inside the cell text takes the column and counts as a match
RECURSIVE MatchCell(_, _, _, _, _, _)
MatchCell(m, col, cellText, fields, keywords, f) ==
  IF f > Len(fields) THEN m
  ELSE LET key == fields[f]
           hit == /\ m.mapping[key] = <<>>
                  /\ \E k \in 1..Len(keywords[key]) :
                       Includes(cellText, toLowerCase(keywords[key][k]))
           next == IF hit
                   THEN [mapping |-> [m.mapping EXCEPT ![key] = <<col>>],
                         matchCount |-> m.matchCount + 1]
                   ELSE m
       IN  MatchCell(next, col, cellText, fields, keywords, f + 1)

\* the loop over the cells of one row, from column col on
RECURSIVE MatchRowFrom(_, _, _, _, _)
MatchRowFrom(m, row, fields, keywords, col) ==
  IF col >= Len(row) THEN m
  ELSE LET cellText == normalizeText(row[col + 1])
           next == IF cellText = <<>> THEN m
                   ELSE MatchCell(m, col, cellText, fields, keywords, 1)
       IN  MatchRowFrom(next, row, fields, keywords, col + 1)

MatchRow(row, fields, keywords) ==
  MatchRowFrom([mapping |-> EmptyMapping(fields), matchCount |-> 0], row, fields, keywords, 0)

\* the rows the grids below are made of
GridRowPool ==
  << \* 1: a title line above the table
     << <<"S","c","h","e","t"," ","5">> >>,
     \* 2: a header line: name, quantity, price
     << <<"N","a","i","m","e","n","o","v","a","n","i","e">>, <<"K","o","l","-","v","o">>, <<"C","e","n","a">> >>,
     \* 3: a header line of one cell that names two fields
     << <<"K","o","d"," ","t","o","v","a","r","a">> >>,
     \* 4: a line that names the name field only
     << <<"T","o","v","a","r">> >>,
     \* 5: a line that names two fields and no name
     << <<"K","o","l","-","v","o">>, <<"C","e","n","a">> >>,
     \* 6: an item line
     << <<"K","a","b","e","l">>, <<"2">>, <<"1","0">> >>,
     \* 7: a blank line
     << <<>>, <<" ">> >>,
     \* 8: a line without a name
     << <<>>, <<"3">>, <<"5">> >>,
     \* 9: a subtotal line
     << <<"I","t","o","g","o"," ","p","o"," ","r","a","z","d","e","l","u">>, <<>>, <<"1","5">> >>,
     \* 10: a total line
     << <<" ","V","s","e","g","o">>, <<"T","O","T","A","L">>, <<"1","5">> >>,
     \* 11: an item line whose name starts with total
     << <<"T","o","t","a","l","s">>, <<"1">>, <<"I","t","o","g","o">> >> >>

\* the scan of each of these rows, computed once
columnsTable == [r \in Range(GridRowPool) |-> MatchRow(r, COLUMN_FIELDS, COLUMN_KEYWORDS)]

headerTable == [r \in Range(GridRowPool) |-> MatchRow(r, HEADER_FIELDS, HEADER_KEYWORDS)]

ScanColumns(row) ==
  IF row \in DOMAIN columnsTable THEN columnsTable[row]
  ELSE MatchRow(row, COLUMN_FIELDS, COLUMN_KEYWORDS)

ScanHeader(row) ==
  IF row \in DOMAIN headerTable THEN headerTable[row]
  ELSE MatchRow(row, HEADER_FIELDS, HEADER_KEYWORDS)

\* two matched fields, whichever they are
IsHeaderAnyTwo(m) == m.matchCount >= 2

\* "Require at least name and one more column"
IsHeader(m) == m.mapping.name # <<>> /\ m.matchCount >= 2

\* detectColumns, the loop from row i on
RECURSIVE DetectColumnsFrom(_, _, _)
DetectColumnsFrom(rows, i, searchLimit) ==
  IF i >= searchLimit THEN <<>>
  ELSE LET m == ScanColumns(rows[i + 1])
       IN  IF IsHeader(m)
           THEN <<[mapping |-> m.mapping, headerRowIndex |-> i]>>
           ELSE DetectColumnsFrom(rows, i + 1, searchLimit)

detectColumns(rows) == DetectColumnsFrom(rows, 0, Min(Len(rows), 10))

\* detectHeaderRow on a sheet whose range starts at A1 and whose rows are the
\* rows of the grid: range.s.r = 0 and range.e.r = Len(rows) - 1
RECURSIVE DetectHeaderRowFrom(_, _, _)
DetectHeaderRowFrom(rows, row, last) ==
  IF row > last THEN <<>>
  ELSE LET m == ScanHeader(rows[row + 1])
       IN  IF IsHeader(m)
           THEN <<[rowIndex |-> row, mapping |-> m.mapping]>>
           ELSE DetectHeaderRowFrom(rows, row + 1, last)

detectHeaderRow(rows) == DetectHeaderRowFrom(rows, 0, Min(Len(rows) - 1, 30))

\* ------------------------------------------------------------------------
\* Calls of the parsing functions.  A grid of a call is a list of places in
\* GridRowPool: any list of at most MaxGridRows rows, or up to MaxTitleRows
\* title lines followed by one row.
\* ------------------------------------------------------------------------
\* the longest list of arbitrary rows
MaxGridRows == 2

\* the most title lines above a row
MaxTitleRows == 31

ShortGrids == UNION {[1..n -> DOMAIN GridRowPool] : n \in 0..MaxGridRows}

TitledGrids ==
  {[i \in 1..(k + 1) |-> IF i <= k THEN 1 ELSE r] :
     k \in 1..MaxTitleRows, r \in DOMAIN GridRowPool}

\* the rows of a grid
GridRows(grid) == [i \in 1..Len(grid) |-> GridRowPool[grid[i]]]

DetectCalls ==
  {[fn |-> f, grid |-> g, returned |-> FALSE, result |-> <<>>] :
     f \in {"detectColumns", "detectHeaderRow"}, g \in ShortGrids \cup TitledGrids}

DetectColumnsReturns ==
  /\ call.fn = "detectColumns"
  /\ ~call.returned
  /\ call' = [call EXCEPT !.returned = TRUE, !.result = detectColumns(GridRows(call.grid))]
  /\ UNCHANGED <<matched_items, matching_rules, pc, run>>

DetectHeaderRowReturns ==
  /\ call.fn = "detectHeaderRow"
  /\ ~call.returned
  /\ call' = [call EXCEPT !.returned = TRUE, !.result = detectHeaderRow(GridRows(call.grid))]
  /\ UNCHANGED <<matched_items, matching_rules, pc, run>>

\* ------------------------------------------------------------------------
\* parsePrice.  A number is held in thousandths (1.5 is 1500); the cells of
\* the grids carry at most three decimals.  The rouble sign has no Latin
\* spelling and does not occur in the cells.
\* ------------------------------------------------------------------------
\* value.replace(/rub\.?/gi, '')
RECURSIVE RemoveRub(_)
RemoveRub(s) ==
  IF Len(s) < 3 THEN s
  ELSE IF toLowerCase(SubSeq(s, 1, 3)) = <<"r","u","b">>
       THEN IF Len(s) >= 4 /\ s[4] = "."
            THEN RemoveRub(SubSeq(s, 5, Len(s)))
            ELSE RemoveRub(SubSeq(s, 4, Len(s)))
       ELSE <<Head(s)>> \o RemoveRub(Tail(s))

\* value.replace(/r\.?$/i, '')
RemoveTrailingR(s) ==
  IF Len(s) >= 2 /\ s[Len(s)] = "." /\ LowerChar(s[Len(s) - 1]) = "r"
  THEN SubSeq(s, 1, Len(s) - 2)
  ELSE IF Len(s) >= 1 /\ LowerChar(s[Len(s)]) = "r"
       THEN SubSeq(s, 1, Len(s) - 1)
       ELSE s

\* value.replace(',', '.'): the first comma only
RECURSIVE ReplaceFirstComma(_)
ReplaceFirstComma(s) ==
  IF s = <<>> THEN <<>>
  ELSE IF Head(s) = "," THEN <<".">> \o Tail(s)
       ELSE <<Head(s)>> \o ReplaceFirstComma(Tail(s))

DigitValue(c) == CHOOSE d \in 0..9 : ToString(d) = c

\* the digits at the start of s
RECURSIVE LeadingDigits(_)
LeadingDigits(s) ==
  IF s # <<>> /\ Head(s) \in DigitChars THEN <<Head(s)>> \o LeadingDigits(Tail(s)) ELSE <<>>

RECURSIVE DigitsValue(_, _)
DigitsValue(ds, acc) ==
  IF ds = <<>> THEN acc ELSE DigitsValue(Tail(ds), 10 * acc + DigitValue(Head(ds)))

\* parseFloat of an unsigned prefix: <<>> for NaN
ParseUnsigned(s) ==
  LET int == LeadingDigits(s)
      rest == SubSeq(s, Len(int) + 1, Len(s))
      frac == IF rest # <<>> /\ Head(rest) = "." THEN LeadingDigits(Tail(rest)) ELSE <<>>
      frac3 == SubSeq(frac \o <<"0","0","0">>, 1, 3)
  IN  IF int = <<>> /\ frac = <<>> THEN <<>>
      ELSE <<1000 * DigitsValue(int, 0) + DigitsValue(frac3, 0)>>

\* parseFloat
parseFloat(s) ==
  IF s # <<>> /\ Head(s) = "-"
  THEN LET v == ParseUnsigned(Tail(s)) IN IF v = <<>> THEN <<>> ELSE <<0 - v[1]>>
  ELSE IF s # <<>> /\ Head(s) = "+" THEN ParseUnsigned(Tail(s))
       ELSE ParseUnsigned(s)

parsePrice(value) ==
  IF value = <<>> THEN <<>>
  ELSE LET cleaned == trim(ReplaceFirstComma(RemoveTrailingR(RemoveRub(RemoveWhitespace(value)))))
       IN  IF cleaned = <<>> THEN <<>> ELSE parseFloat(cleaned)

\* ------------------------------------------------------------------------
\* parseTableData
\* ------------------------------------------------------------------------
\* row[col] || '': the cell, or '' outside the row
CellAt(row, col) == IF col \in 0..(Len(row) - 1) THEN row[col + 1] ELSE <<>>

\* mapping.f !== null ? (row[mapping.f] || '').trim() : ''
TextAt(row, column) == IF column # <<>> THEN trim(CellAt(row, column[1])) ELSE <<>>

\* ... || null
TextOrNull(row, column) ==
  LET t == TextAt(row, column) IN IF t = <<>> THEN <<>> ELSE <<t>>

\* mapping.f !== null ? parsePrice(row[mapping.f]) : null
PriceAt(row, column) == IF column # <<>> THEN parsePrice(CellAt(row, column[1])) ELSE <<>>

\* row.some(cell => cell && cell.trim())
HasData(row) == \E c \in 1..Len(row) : trim(row[c]) # <<>>

StartsWith(s, prefix) == Len(s) >= Len(prefix) /\ SubSeq(s, 1, Len(prefix)) = prefix

\* "Skip rows that look like subtotals/totals"
IsTotalName(name) ==
  LET nameLower == toLowerCase(name)
  IN  \/ StartsWith(nameLower, <<"i","t","o","g","o">>)
      \/ StartsWith(nameLower, <<"v","s","e","g","o">>)
      \/ nameLower = <<"t","o","t","a","l">>

\* the row number of a warning, counted from the index of the row itself
RowNumberFromZero(i) == i

\* the row number of a warning: i + 1
RowNumber(i) == i + 1

InvoiceRow(row, mapping, name, i) ==
  [article |-> TextOrNull(row, mapping.article),
   name |-> name,
   unit |-> TextOrNull(row, mapping.unit),
   quantity |-> PriceAt(row, mapping.quantity),
   price |-> PriceAt(row, mapping.price),
   amount |-> PriceAt(row, mapping.amount),
   row_index |-> i]

NoRows == [threw |-> FALSE, items |-> <<>>, errors |-> <<>>, skipped |-> 0]

\* the loop of parseTableData from row i on.  rows[i] of a negative i is
\* undefined and row.some raises a TypeError: the function ends without a
\* returned value.
RECURSIVE ParseFrom(_, _, _, _)
ParseFrom(rows, mapping, i, acc) ==
  IF i >= Len(rows) THEN acc
  ELSE IF i < 0 THEN [acc EXCEPT !.threw = TRUE]
  ELSE LET row == rows[i + 1]
           name == TextAt(row, mapping.name)
           next ==
             IF ~HasData(row) THEN acc
             ELSE IF name = <<>>
                  THEN [acc EXCEPT !.skipped = @ + 1,
                                   !.errors = Append(@, [message |-> "missing name", rowNumber |-> RowNumber(i)])]
                  ELSE IF IsTotalName(name) THEN acc
                       ELSE [acc EXCEPT !.items = Append(@, InvoiceRow(row, mapping, name, i))]
       IN  ParseFrom(rows, mapping, i + 1, next)

parseTableData(rows, mapping, startRow) == ParseFrom(rows, mapping, startRow, NoRows)

\* ------------------------------------------------------------------------
\* parsePdfFile and parseExcelInvoice once the rows are extracted, the saved
\* parser configs, and the upload and reparse routes of routes/invoices.ts
\* ------------------------------------------------------------------------
\* the configs PUT /api/suppliers/:id/parser-config can have stored (any
\* object is accepted); wellFormed is loadSavedMapping's test
\* typeof config.headerRow === 'number' && config.name !== undefined
SavedConfigs ==
  << \* 1: the columns of the header line 2 of GridRowPool, header in row 0
     [article |-> <<>>, name |-> <<0>>, unit |-> <<>>, quantity |-> <<1>>,
      price |-> <<2>>, amount |-> <<>>, headerRow |-> 0, wellFormed |-> TRUE],
     \* 2: the name in another column, no header line
     [article |-> <<0>>, name |-> <<1>>, unit |-> <<>>, quantity |-> <<>>,
      price |-> <<>>, amount |-> <<2>>, headerRow |-> -1, wellFormed |-> TRUE],
     \* 3: columns outside the grid
     [article |-> <<>>, name |-> <<7>>, unit |-> <<-1>>, quantity |-> <<>>,
      price |-> <<9>>, amount |-> <<>>, headerRow |-> 0, wellFormed |-> TRUE],
     \* 4: a header row before the grid
     [article |-> <<>>, name |-> <<0>>, unit |-> <<>>, quantity |-> <<1>>,
      price |-> <<>>, amount |-> <<>>, headerRow |-> -2, wellFormed |-> TRUE],
     \* 5: a header row after the grid
     [article |-> <<>>, name |-> <<0>>, unit |-> <<>>, quantity |-> <<1>>,
      price |-> <<>>, amount |-> <<>>, headerRow |-> 40, wellFormed |-> TRUE],
     \* 6: no name column
     [article |-> <<>>, name |-> <<>>, unit |-> <<>>, quantity |-> <<1>>,
      price |-> <<2>>, amount |-> <<>>, headerRow |-> 0, wellFormed |-> TRUE],
     \* 7: config 2 with a headerRow that is not a number
     [article |-> <<0>>, name |-> <<1>>, unit |-> <<>>, quantity |-> <<>>,
      price |-> <<>>, amount |-> <<2>>, headerRow |-> -1, wellFormed |-> FALSE] >>

\* a stored config, or none: 0 for none
ConfigIds == 0..Len(SavedConfigs)

\* loadSavedMapping: <<>> for undefined
loadSavedMapping(config) ==
  IF config = 0 THEN <<>>
  ELSE IF SavedConfigs[config].wellFormed THEN <<SavedConfigs[config]>> ELSE <<>>

\* mapping = {article: savedMapping.article, ...}
ColumnsOf(savedMapping) == [f \in Range(COLUMN_FIELDS) |-> savedMapping[f]]

FileError(message, totalRows) ==
  [threw |-> FALSE, items |-> <<>>,
   errors |-> <<[message |-> message, rowNumber |-> 0]>>,
   totalRows |-> totalRows, skippedRows |-> 0]

\* the file parsers from the extracted rows on; savedMapping is <<>> when
\* the argument is omitted
ParseRows(rows, savedMapping) ==
  IF Len(rows) < 2 THEN FileError("no table", 0)
  ELSE IF savedMapping = <<>> /\ detectColumns(rows) = <<>>
       THEN FileError("no columns", Len(rows))
       ELSE LET mapping == IF savedMapping # <<>> THEN ColumnsOf(savedMapping[1])
                           ELSE detectColumns(rows)[1].mapping
                headerRowIndex == IF savedMapping # <<>> THEN savedMapping[1].headerRow
                                  ELSE detectColumns(rows)[1].headerRowIndex
                result == parseTableData(rows, mapping, headerRowIndex + 1)
            IN  [threw |-> result.threw,
                 items |-> result.items,
                 errors |-> result.errors,
                 totalRows |-> Len(rows) - headerRowIndex - 1,
                 skippedRows |-> result.skipped]

\* the upload route keeps the first pass when it produced items
SecondPassUnlessItems(rows, initialResult, savedMapping) ==
  IF savedMapping # <<>> /\ initialResult.items = <<>>
  THEN ParseRows(rows, savedMapping) ELSE initialResult

\* "Check for saved parser config and re-parse if available"
SecondPass(rows, initialResult, savedMapping) ==
  IF savedMapping # <<>> THEN ParseRows(rows, savedMapping) ELSE initialResult

\* a status that does not look at the items: what C29_StatusTellsItems rules out
StatusParsed(parseResult) == "parsed"

\* parseResult.items.length > 0 ? 'parsed' : 'needs_mapping'
StatusOf(parseResult) == IF Len(parseResult.items) > 0 THEN "parsed" ELSE "needs_mapping"

\* POST /api/projects/:id/invoices on a file with these rows; supplierId is
\* the supplier found or created for the supplier name of the first pass,
\* NullId without a name; config is the config stored for that supplier.
\* A raised exception is answered with 500 and nothing is stored.
UploadInvoice(rows, supplierId, config) ==
  LET initialResult == ParseRows(rows, <<>>)
      savedMapping == IF supplierId # NullId THEN loadSavedMapping(config) ELSE <<>>
      parseResult == SecondPass(rows, initialResult, savedMapping)
  IN  IF parseResult.threw
      THEN [code |-> 500, stored |-> FALSE, items |-> <<>>, status |-> "none"]
      ELSE [code |-> 201, stored |-> TRUE, items |-> parseResult.items,
            status |-> StatusOf(parseResult)]

\* POST /api/invoices/:id/reparse of an invoice of this supplier whose file
\* has these rows
ReparseInvoice(rows, supplierId, config) ==
  LET savedMapping == IF supplierId # NullId THEN loadSavedMapping(config) ELSE <<>>
  IN  IF savedMapping = <<>>
      THEN [code |-> 400, stored |-> FALSE, items |-> <<>>, status |-> "none"]
      ELSE LET parseResult == ParseRows(rows, savedMapping)
           IN  IF parseResult.threw
               THEN [code |-> 500, stored |-> FALSE, items |-> <<>>, status |-> "none"]
               ELSE [code |-> 200, stored |-> TRUE, items |-> parseResult.items,
                     status |-> StatusOf(parseResult)]

\* the start rows of the calls of parseTableData
StartRows == (0 - 1)..MaxGridRows

ParseTableCalls ==
  {[fn |-> "parseTableData", grid |-> g, config |-> c, startRow |-> s,
    returned |-> FALSE, result |-> NoRows] :
     g \in ShortGrids, c \in DOMAIN SavedConfigs, s \in StartRows}

ParseFileCalls ==
  {[fn |-> "parseFile", grid |-> g, config |-> c,
    returned |-> FALSE, result |-> FileError("none", 0)] :
     g \in ShortGrids, c \in ConfigIds}

RouteCalls ==
  {[fn |-> f, grid |-> g, supplier |-> s, config |-> c, returned |-> FALSE,
    result |-> [code |-> 0, stored |-> FALSE, items |-> <<>>, status |-> "none"]] :
     f \in {"upload", "reparse"}, g \in ShortGrids, s \in {NullId, 1}, c \in ConfigIds}

ParserInit ==
  /\ matched_items = <<>>
  /\ matching_rules = <<>>
  /\ pc = "idle"
  /\ run = NoRun
  /\ \/ call \in DetectCalls
     \/ call \in ParseTableCalls
     \/ call \in ParseFileCalls
     \/ call \in RouteCalls

ParseTableDataReturns ==
  /\ call.fn = "parseTableData"
  /\ ~call.returned
  /\ call' = [call EXCEPT !.returned = TRUE,
                          !.result = parseTableData(GridRows(call.grid),
                                                    ColumnsOf(SavedConfigs[call.config]),
                                                    call.startRow)]
  /\ UNCHANGED <<matched_items, matching_rules, pc, run>>

ParseFileReturns ==
  /\ call.fn = "parseFile"
  /\ ~call.returned
  /\ call' = [call EXCEPT !.returned = TRUE,
                          !.result = ParseRows(GridRows(call.grid),
                                               IF call.config = 0 THEN <<>>
                                               ELSE <<SavedConfigs[call.config]>>)]
  /\ UNCHANGED <<matched_items, matching_rules, pc, run>>

UploadReturns ==
  /\ call.fn = "upload"
  /\ ~call.returned
  /\ call' = [call EXCEPT !.returned = TRUE,
                          !.result = UploadInvoice(GridRows(call.grid), call.supplier, call.config)]
  /\ UNCHANGED <<matched_items, matching_rules, pc, run>>

ReparseReturns ==
  /\ call.fn = "reparse"
  /\ ~call.returned
  /\ call' = [call EXCEPT !.returned = TRUE,
                          !.result = ReparseInvoice(GridRows(call.grid), call.supplier, call.config)]
  /\ UNCHANGED <<matched_items, matching_rules, pc, run>>

NextParser ==
  \/ DetectColumnsReturns
  \/ DetectHeaderRowReturns
  \/ ParseTableDataReturns
  \/ ParseFileReturns
  \/ UploadReturns
  \/ ReparseReturns

SpecParser == ParserInit /\ [][NextParser]_vars

\* ------------------------------------------------------------------------
\* Properties of the parsing functions
\* ------------------------------------------------------------------------
\* a call of fn has returned
Returned(fn) == call.fn = fn /\ call.returned

\* the fields of COLUMN_KEYWORDS that a row names: some cell of the row
\* holds a keyword of the field
NamedFields(row) ==
  {f \in Range(COLUMN_FIELDS) :
     \E c \in 1..Len(row), k \in 1..Len(COLUMN_KEYWORDS[f]) :
       Includes(normalizeText(row[c]), COLUMN_KEYWORDS[f][k])}

namedTable == [r \in Range(GridRowPool) |-> NamedFields(r)]

\* a row qualifies as a header: it names the name field and another field
Qualifies(row) == "name" \in namedTable[row] /\ Cardinality(namedTable[row]) >= 2

\* the rows detectColumns scans, counted from 0
ScannedRows(rows) == 0..(Min(Len(rows), 10) - 1)

QualifyingRows(rows) == {i \in ScannedRows(rows) : Qualifies(rows[i + 1])}

\* C14: detectColumns returns null exactly when no scanned row names the
\* name field and another field; otherwise it returns the lowest such row
\* with a mapping in which name is set and at least two fields are set.
C14_DetectsFirstHeader ==
  Returned("detectColumns") =>
    \A rows \in {GridRows(call.grid)} :
      /\ call.result = <<>> <=> QualifyingRows(rows) = {}
      /\ call.result # <<>> =>
           /\ call.result[1].mapping.name # <<>>
           /\ Cardinality({f \in Range(COLUMN_FIELDS) : call.result[1].mapping[f] # <<>>}) >= 2
           /\ call.result[1].headerRowIndex \in QualifyingRows(rows)
           /\ \A i \in QualifyingRows(rows) : call.result[1].headerRowIndex <= i

\* C14 witness: detectColumns has returned a header row below a row that
\* names two fields without the name, or the name alone.
C14_Witness ==
  /\ Returned("detectColumns")
  /\ call.result # <<>>
  /\ call.result[1].headerRowIndex = 1
  /\ \A rows \in {GridRows(call.grid)} :
       /\ namedTable[rows[1]] # {}
       /\ ("name" \notin namedTable[rows[1]]) => Cardinality(namedTable[rows[1]]) >= 2

\* a row qualifies as a header of a specification table: it names the name
\* field of HEADER_KEYWORDS and another field
NamedHeaderFields(row) ==
  {f \in Range(HEADER_FIELDS) :
     \E c \in 1..Len(row), k \in 1..Len(HEADER_KEYWORDS[f]) :
       Includes(normalizeText(row[c]), HEADER_KEYWORDS[f][k])}

namedHeaderTable == [r \in Range(GridRowPool) |-> NamedHeaderFields(r)]

QualifiesAsHeader(row) ==
  "name" \in namedHeaderTable[row] /\ Cardinality(namedHeaderTable[row]) >= 2

\* C15: detectColumns never returns a header row index of 10 or more and
\* detectHeaderRow never returns one of 30 or more: when no row before row
\* 10, respectively row 30, qualifies as a header, the result is null.
C15_ScanLimits ==
  /\ Returned("detectColumns") =>
       /\ call.result # <<>> => call.result[1].headerRowIndex < 10
       /\ (\A i \in 1..Min(Len(call.grid), 10) : ~Qualifies(GridRowPool[call.grid[i]]))
            => call.result = <<>>
  /\ Returned("detectHeaderRow") =>
       /\ call.result # <<>> => call.result[1].rowIndex < 30
       /\ (\A i \in 1..Min(Len(call.grid), 30) : ~QualifiesAsHeader(GridRowPool[call.grid[i]]))
            => call.result = <<>>

\* the outcome of one row under a mapping, by the wording of the claim
RowOutcome(row, mapping) ==
  IF \A c \in 1..Len(row) : trim(row[c]) = <<>> THEN "blank"
  ELSE LET name == IF mapping.name = <<>> THEN <<>> ELSE trim(CellAt(row, mapping.name[1]))
           folded == toLowerCase(name)
       IN  IF name = <<>> THEN "no name"
           ELSE IF \/ (Len(folded) >= 5 /\ SubSeq(folded, 1, 5) = <<"i","t","o","g","o">>)
                   \/ (Len(folded) >= 5 /\ SubSeq(folded, 1, 5) = <<"v","s","e","g","o">>)
                   \/ folded = <<"t","o","t","a","l">>
                THEN "total"
                ELSE "item"

\* the row indices from startRow to the end of the grid that have the
\* outcome, in row order
RowsWithOutcome(rows, mapping, startRow, outcome) ==
  SelectSeq([k \in 1..(Len(rows) - startRow) |-> startRow + k - 1],
            LAMBDA i : RowOutcome(rows[i + 1], mapping) = outcome)

\* C16: parseTableData from a start row inside or after the grid returns one
\* item for each row with a name that is not a total, carrying the row's
\* index, in row order; one warning for each non-blank row without a name,
\* naming the row's index plus 1, in row order; skipped is the number of
\* warnings; blank rows and total rows give no item and no warning.
C16_RowOutcomes ==
  (Returned("parseTableData") /\ call.startRow >= 0) =>
    \A rows \in {GridRows(call.grid)}, mapping \in {ColumnsOf(SavedConfigs[call.config])} :
      \A itemRows \in {RowsWithOutcome(rows, mapping, call.startRow, "item")},
         noNameRows \in {RowsWithOutcome(rows, mapping, call.startRow, "no name")} :
        /\ ~call.result.threw
        /\ [k \in 1..Len(call.result.items) |-> call.result.items[k].row_index] = itemRows
        /\ [k \in 1..Len(call.result.errors) |-> call.result.errors[k].rowNumber]
             = [k \in 1..Len(noNameRows) |-> noNameRows[k] + 1]
        /\ call.result.skipped = Len(call.result.errors)
        /\ \A k \in 1..Len(call.result.items) :
             call.result.items[k].name = trim(CellAt(rows[itemRows[k] + 1], mapping.name[1]))

\* C16 witness: parseTableData has returned from a grid whose first row is a
\* total row or a blank row and whose second row gave an item, or a warning
\* naming row 2.
C16_Witness ==
  /\ Returned("parseTableData")
  /\ call.startRow = 0
  /\ Len(call.grid) = 2
  /\ RowOutcome(GridRowPool[call.grid[1]], ColumnsOf(SavedConfigs[call.config]))
       \in {"total", "blank"}
  /\ \/ (Len(call.result.items) = 1 /\ call.result.items[1].row_index = 1
         /\ call.result.errors = <<>>)
     \/ (call.result.items = <<>> /\ Len(call.result.errors) = 1
         /\ call.result.errors[1].rowNumber = 2 /\ call.result.skipped = 1)

\* the saved mapping of the supplier of a call of a route: <<>> for none
SavedMappingOf(c) == IF c.supplier = NullId THEN <<>> ELSE loadSavedMapping(c.config)

\* the items of the rows under a saved mapping: the rows after its header
\* row parsed with its columns; a file of fewer than 2 rows has no table
ItemsUnder(rows, savedMapping) ==
  IF Len(rows) < 2 THEN <<>>
  ELSE parseTableData(rows, ColumnsOf(savedMapping), savedMapping.headerRow + 1).items

\* C17: when the supplier of the invoice has a saved mapping, the items an
\* upload or a reparse stores are the items of the rows under the saved
\* mapping, whatever auto-detection gives on the same rows.
C17_SavedMappingWins ==
  ((Returned("upload") \/ Returned("reparse")) /\ call.result.stored) =>
    \A saved \in {SavedMappingOf(call)} :
      saved # <<>> => call.result.items = ItemsUnder(GridRows(call.grid), saved[1])

\* C17 witness: an upload has stored the items under the saved mapping of
\* its supplier on rows where auto-detection finds a header and gives other
\* items.
C17_Witness ==
  /\ Returned("upload")
  /\ call.result.stored
  /\ SavedMappingOf(call) # <<>>
  /\ call.result.items # <<>>
  /\ \A detected \in {ParseRows(GridRows(call.grid), <<>>)} :
       detected.items # <<>> /\ detected.items # call.result.items

\* C18: parseTableData and the file parsers end in a returned result, not
\* in an exception, for every grid, mapping and start row, the saved
\* mappings with columns outside the grid or a header row before or after
\* the grid included.
C18_NeverRaises ==
  (Returned("parseTableData") \/ Returned("parseFile")) => ~call.result.threw

\* ------------------------------------------------------------------------
\* Calls of normalizeForMatching on the strings of at most MaxTextLen
\* characters over letters of stop words and another letter, an upper-case
\* letter, a digit, a punctuation mark, the space and the tab; the function
\* is applied to the string and then to its own result.
\* ------------------------------------------------------------------------
MaxTextLen == 4

TextAlphabet == {"m", "s", "a", "M", "1", "-", " ", "\t"}

Texts == UNION {[1..n -> TextAlphabet] : n \in 0..MaxTextLen}

NormalizeInit ==
  /\ matched_items = <<>>
  /\ matching_rules = <<>>
  /\ pc = "idle"
  /\ run = NoRun
  /\ call \in {[fn |-> "normalizeForMatching", text |-> t, applied |-> 0,
                result |-> <<>>, again |-> <<>>] : t \in Texts}

NormalizeReturns ==
  /\ call.fn = "normalizeForMatching"
  /\ call.applied = 0
  /\ call' = [call EXCEPT !.applied = 1, !.result = normalizeForMatching(call.text)]
  /\ UNCHANGED <<matched_items, matching_rules, pc, run>>

NormalizeAgainReturns ==
  /\ call.fn = "normalizeForMatching"
  /\ call.applied = 1
  /\ call' = [call EXCEPT !.applied = 2, !.again = normalizeForMatching(call.result)]
  /\ UNCHANGED <<matched_items, matching_rules, pc, run>>

NextNormalize == NormalizeReturns \/ NormalizeAgainReturns

SpecNormalize == NormalizeInit /\ [][NextNormalize]_vars

\* normalizeForMatching has been applied to the text and to its result
NormalizedTwice == call.fn = "normalizeForMatching" /\ call.applied = 2

\* C19: normalizeForMatching applied to its own result returns that result.
C19_NormalizeIdempotent == NormalizedTwice => call.again = call.result

\* C19 witness: the first application lowered a letter, replaced a
\* punctuation mark and removed a stop word, and left a non-empty result.
C19_Witness ==
  /\ NormalizedTwice
  /\ call.result # <<>>
  /\ "M" \in Range(call.text)
  /\ "-" \in Range(call.text)
  /\ \E w \in Range(split(trim(CollapseWhitespace(ReplacePunctuation(toLowerCase(call.text)))))) :
       w \in STOP_WORDS
  /\ call.again = call.result

\* ------------------------------------------------------------------------
\* Confirmations of one pair of names under several scopes: a project whose
\* specification item has three candidate rows, one for each of three
\* invoice items with the same normalized name, on an invoice without a
\* supplier and on invoices of supplier 1 and of supplier 2.
\* ------------------------------------------------------------------------
ScopedSpecName == <<"K","a","b","e","l"," ","V","V","G">>

\* ii.name of the invoice item of each candidate row
ScopedInvoiceNames ==
  << <<"k","a","b","e","l",","," ","v","v","g"," ","3">>,
     <<"K","a","b","e","l"," ","V","V","G"," ","3">>,
     <<"K","A","B","E","L"," ","V","V","G","-","3"," ","s","h","t">> >>

\* i.supplier_id of the invoice of each candidate row
ScopedSuppliers == <<NullId, 1, 2>>

\* the row of the join for PUT /api/matching/:id/confirm and
\* POST /api/matching/:id/confirm-analog
ScopedMatch(matchId) ==
  [id |-> matchId,
   specification_item_id |-> matched_items[matchId].specification_item_id,
   invoice_item_id |-> matched_items[matchId].invoice_item_id,
   spec_name |-> ScopedSpecName,
   invoice_name |-> ScopedInvoiceNames[matched_items[matchId].invoice_item_id],
   supplier_id |-> ScopedSuppliers[matched_items[matchId].invoice_item_id]]

ScopedInit ==
  /\ matched_items =
       [k \in DOMAIN ScopedSuppliers |->
          [specification_item_id |-> 1,
           invoice_item_id |-> k,
           confidence |-> 800,
           match_type |-> "name_similarity",
           is_confirmed |-> 0,
           is_selected |-> 0]]
  /\ matching_rules = <<>>
  /\ pc = "idle"
  /\ run = NoRun
  /\ call = NoCall

\* PUT /api/matching/:id/confirm
ConfirmScoped(matchId) ==
  /\ matchId \in MatchIds
  /\ WithinTimesUsed(matching_rules)
  /\ matched_items' =
       ConfirmAndSelect(Deselect(matched_items, ScopedMatch(matchId).specification_item_id),
                        matchId)
  /\ matching_rules' =
       LearnExact(matching_rules,
                  normalizeForMatching(ScopedMatch(matchId).spec_name),
                  normalizeForMatching(ScopedMatch(matchId).invoice_name),
                  ScopedMatch(matchId).supplier_id)
  /\ UNCHANGED <<pc, run, call>>

\* POST /api/matching/:id/confirm-analog
ConfirmAnalogScoped(matchId) ==
  /\ matchId \in MatchIds
  /\ WithinTimesUsed(matching_rules)
  /\ matched_items' =
       ConfirmAndSelect(Deselect(matched_items, ScopedMatch(matchId).specification_item_id),
                        matchId)
  /\ matching_rules' =
       LearnAnalog(matching_rules,
                   normalizeForMatching(ScopedMatch(matchId).spec_name),
                   normalizeForMatching(ScopedMatch(matchId).invoice_name),
                   ScopedMatch(matchId).supplier_id)
  /\ UNCHANGED <<pc, run, call>>

NextScoped ==
  \/ \E matchId \in DOMAIN ScopedSuppliers : ConfirmScoped(matchId)
  \/ \E matchId \in DOMAIN ScopedSuppliers : ConfirmAnalogScoped(matchId)

SpecScoped == ScopedInit /\ [][NextScoped]_vars

\* the rules of a scope
RulesOfScope(rules, supplierId) == {k \in 1..Len(rules) : rules[k].supplier_id = supplierId}

\* what a confirmation under the scope of candidate row matchId does to the
\* rules: every rule of another scope, the null scope included, is left as
\* it was; without a rule of the own scope one rule of that scope is
\* inserted, with times_used 1; with one, no rule is inserted
ScopeIsOwnBucket(matchId) ==
  \A scope \in {ScopedSuppliers[matched_items[matchId].invoice_item_id]} :
    /\ Len(matching_rules') >= Len(matching_rules)
    /\ \A k \in 1..Len(matching_rules) :
         matching_rules[k].supplier_id # scope => matching_rules'[k] = matching_rules[k]
    /\ RulesOfScope(matching_rules, scope) = {} =>
         /\ Len(matching_rules') = Len(matching_rules) + 1
         /\ matching_rules'[Len(matching_rules')].supplier_id = scope
         /\ matching_rules'[Len(matching_rules')].times_used = 1
    /\ RulesOfScope(matching_rules, scope) # {} =>
         /\ Len(matching_rules') = Len(matching_rules)
         /\ \E k \in RulesOfScope(matching_rules, scope) :
              matching_rules'[k].times_used = matching_rules[k].times_used + 1

\* C20: a confirmation, exact or analog, of a pair under a scope (a
\* supplier, or null) looks up and updates only a rule of that scope: when
\* the pair has rules of other scopes only, it inserts a rule of its own
\* scope and leaves the others' confidence and times_used as they were.
C20_ScopeIsOwnBucket ==
  [][\A matchId \in DOMAIN ScopedSuppliers :
       (ConfirmScoped(matchId) \/ ConfirmAnalogScoped(matchId)) => ScopeIsOwnBucket(matchId)]_vars

\* C20 witness: the pair has a null-scoped rule and a rule of supplier 1
\* inserted after it and used again, the null-scoped rule still as its
\* insertion left it.
C20_Witness ==
  /\ Len(matching_rules) >= 2
  /\ matching_rules[1].supplier_id = NullId
  /\ matching_rules[1].times_used = 1
  /\ matching_rules[2].supplier_id = 1
  /\ matching_rules[2].specification_pattern = matching_rules[1].specification_pattern
  /\ matching_rules[2].invoice_pattern = matching_rules[1].invoice_pattern
  /\ matching_rules[2].times_used >= 2

\* ------------------------------------------------------------------------
\* Properties of the tiers of runMatching
\* ------------------------------------------------------------------------
\* the greatest element of a set of confidences, 0 for the empty set
Greatest(values) == IF values = {} THEN 0 ELSE CHOOSE v \in values : \A w \in values : w <= v

\* the values each tier yields for a pair when it is evaluated, in millionths
ArticleYields(spec, inv) == IF ArticlesEqual(spec, inv) THEN {950000} ELSE {}

RuleYields(spec, inv, rules) ==
  {Min(rules[k].confidence * 1000, 950000) :
     k \in {j \in 1..Len(rules) :
              /\ SimAtLeast(Compare(Normalize(spec.name),
                                    Normalize(rules[j].specification_pattern)), 8)
              /\ SimAtLeast(Compare(Normalize(inv.name),
                                    Normalize(rules[j].invoice_pattern)), 8)}}

NameYields(spec, inv) ==
  IF SimAtLeast(Compare(Normalize(spec.name), Normalize(inv.name)), 6)
  THEN {FuzzyConfidence(Compare(Normalize(spec.name), Normalize(inv.name)), 900000, spec, inv)}
  ELSE {}

CharacteristicsYields(spec, inv) ==
  IF Truthy(spec.characteristics)
     /\ SimAtLeast(Compare(SpecNormFull(spec), Normalize(inv.name)), 5)
  THEN {FuzzyConfidence(Compare(SpecNormFull(spec), Normalize(inv.name)), 800000, spec, inv)}
  ELSE {}

\* the confidence and the type of a pair by the order of the tiers: a tier
\* is evaluated when the tiers before it left the best below 0.95; the
\* confidence is the greatest value of the evaluated tiers and the type the
\* first tier that yields it
TierOutcome(spec, inv, rules) ==
  LET y1 == ArticleYields(spec, inv)
      y2 == IF Greatest(y1) < 950000 THEN RuleYields(spec, inv, rules) ELSE {}
      y3 == IF Greatest(y1 \cup y2) < 950000 THEN NameYields(spec, inv) ELSE {}
      y4 == IF Greatest(y1 \cup y2 \cup y3) < 950000
            THEN CharacteristicsYields(spec, inv) ELSE {}
      top == Greatest(y1 \cup y2 \cup y3 \cup y4)
  IN  [conf |-> top,
       type |-> IF top \in y1 THEN "exact_article"
                ELSE IF top \in y2 THEN "learned_rule"
                ELSE IF top \in y3 THEN "name_similarity"
                ELSE "name_characteristics"]

\* C21: every candidate runMatching returns carries the greatest value of
\* the tiers evaluated for its pair, rounded to thousandths, and the type of
\* the first tier in the order exact article, learned rule, name similarity,
\* name + characteristics that yields that value, the tiers after a best of
\* 0.95 or more not being evaluated.
C21_TiersInPriorityOrder ==
  MatchingReturned =>
    \A k \in 1..Len(call.result) :
      \A outcome \in {TierOutcome(CallSpecItems(call)[call.result[k].specItemId],
                                  CallInvoiceItems(call)[call.result[k].invoiceItemId],
                                  RuleStores[call.rules])} :
        /\ outcome.conf >= 400000
        /\ call.result[k].confidence = (outcome.conf + 500) \div 1000
        /\ call.result[k].matchType = outcome.type

\* C21 witness: runMatching has returned an exact_article candidate for a
\* pair that a stored rule covers, and a name_similarity candidate for a
\* pair whose name + characteristics tier yields a lower value.
C21_Witness ==
  /\ MatchingReturned
  /\ \E k \in 1..Len(call.result) :
       /\ call.result[k].matchType = "exact_article"
       /\ RuleYields(CallSpecItems(call)[call.result[k].specItemId],
                     CallInvoiceItems(call)[call.result[k].invoiceItemId],
                     RuleStores[call.rules]) # {}
  /\ \E k \in 1..Len(call.result) :
       /\ call.result[k].matchType = "name_similarity"
       /\ \E v \in CharacteristicsYields(CallSpecItems(call)[call.result[k].specItemId],
                                         CallInvoiceItems(call)[call.result[k].invoiceItemId]) :
            v < call.result[k].confidence * 1000 - 500

\* the rows the matching run in progress has inserted, by position: the
\* unconfirmed rows of the project's specification items
InsertedByRun ==
  {k \in 1..Len(matched_items) :
     /\ matched_items[k].is_confirmed = 0
     /\ matched_items[k].specification_item_id \in SpecItemsOf(run.project)}

\* C22: when a matching run has completed, every row it inserted carries the
\* outcome of the tiers on the rule store as it is now, with every rule the
\* confirmations before the run left; for a pair without exact article match
\* whose greatest min(rule.confidence, 0.95) over the qualifying stored rules
\* is 0.4 or more, the run has inserted a row of at least that confidence.
C22_RunReadsStoredRules ==
  RunComplete =>
    /\ \A k \in InsertedByRun :
         \A outcome \in {TierOutcome(specification_items[matched_items[k].specification_item_id],
                                     invoice_items[matched_items[k].invoice_item_id],
                                     matching_rules)} :
           /\ matched_items[k].confidence = (outcome.conf + 500) \div 1000
           /\ matched_items[k].match_type = outcome.type
    /\ \A s \in SpecItemsOf(run.project), i \in InvoiceItemsOf(run.project) :
         \A learned \in {Greatest(RuleYields(specification_items[s], invoice_items[i],
                                             matching_rules))} :
           (~ArticlesEqual(specification_items[s], invoice_items[i]) /\ learned >= 400000)
             => \E k \in InsertedByRun :
                  /\ matched_items[k].specification_item_id = s
                  /\ matched_items[k].invoice_item_id = i
                  /\ matched_items[k].confidence * 1000 >= learned

\* C22 witness: a run has completed after two confirmations of a pair had
\* raised its rule to 0.92, and it has inserted a learned_rule row of 0.92
\* for the pair.
C22_Witness ==
  /\ RunComplete
  /\ \E r \in 1..Len(matching_rules) :
       matching_rules[r].confidence = 920 /\ matching_rules[r].times_used = 2
  /\ \E k \in InsertedByRun :
       matched_items[k].match_type = "learned_rule" /\ matched_items[k].confidence = 920

\* ------------------------------------------------------------------------
\* Matching runs in the project of the scoped confirmations above
\* ------------------------------------------------------------------------
\* the most rows of matched_items in this project
MaxScopedRows == 4

\* SELECT ... FROM specification_items WHERE project_id = ?
ScopedSpecItems ==
  <<[id |-> 1, name |-> ScopedSpecName, characteristics |-> Null,
     equipment_code |-> Null, unit |-> Null]>>

\* SELECT ... FROM invoice_items ii JOIN invoices i ... WHERE i.project_id = ?
ScopedInvoiceItems ==
  [k \in DOMAIN ScopedInvoiceNames |->
     [id |-> k, article |-> Null, name |-> ScopedInvoiceNames[k], unit |-> Null]]

\* POST /api/projects/:id/matching/run, the whole handler
ScopedRun ==
  \E candidates \in {runMatchingOn(ScopedSpecItems, ScopedInvoiceItems, matching_rules)} :
    /\ Len(DeleteUnconfirmed(matched_items, 1)) + Len(candidates) <= MaxScopedRows
    /\ matched_items' \in
         SelectBestLoop(InsertAll(DeleteUnconfirmed(matched_items, 1), candidates),
                        SpecIdsOf(candidates))
    /\ UNCHANGED <<matching_rules, pc, run, call>>

NextScopedRuns ==
  \/ \E matchId \in 1..MaxScopedRows : ConfirmScoped(matchId)
  \/ \E matchId \in 1..MaxScopedRows : ConfirmAnalogScoped(matchId)
  \/ ScopedRun

SpecScopedRuns == ScopedInit /\ [][NextScopedRuns]_vars

\* C23: a rule scoped to a supplier contributes a learned_rule score only to
\* invoice items of that supplier: every learned_rule row has a qualifying
\* rule without scope or with the scope of the invoice of its invoice item.
C23_ScopeNarrowsRules ==
  \A k \in 1..Len(matched_items) :
    matched_items[k].match_type = "learned_rule" =>
      \E r \in 1..Len(matching_rules) :
        /\ SimAtLeast(Compare(Normalize(ScopedSpecName),
                              Normalize(matching_rules[r].specification_pattern)), 8)
        /\ SimAtLeast(Compare(Normalize(ScopedInvoiceNames[matched_items[k].invoice_item_id]),
                              Normalize(matching_rules[r].invoice_pattern)), 8)
        /\ matching_rules[r].supplier_id
             \in {NullId, ScopedSuppliers[matched_items[k].invoice_item_id]}

\* ------------------------------------------------------------------------
\* Supplier name of the invoice metadata (pdfParser.ts)
\* ------------------------------------------------------------------------
\* the most cells of a row of metadata text
MaxCells == 2

\* \s of a regular expression
IsWhite(c) == c \in SpaceChars \cup {"\n"}

SUPPLIER_BAD_WORDS ==
  <<<<"u","s","l","o","v","i","y","a">>,
     <<"s","a","m","o","v","y","v","o","z">>,
     <<"p","a","s","p","o","r","t">>,
     <<"d","o","s","t","a","v","k","a">>,
     <<"o","t","g","r","u","z","k","a">>,
     <<"o","p","l","a","t">>,
     <<"g","a","r","a","n","t","i","y","a">>,
     <<"v","o","z","v","r","a","t">>,
     <<"p","r","i","m","e","c","h","a","n">>,
     <<"v","n","i","m","a","n","i","e">>>>

\* raw.split(',')[0]
RECURSIVE BeforeComma(_)
BeforeComma(s) ==
  IF s = <<>> \/ Head(s) = "," THEN <<>> ELSE <<Head(s)>> \o BeforeComma(Tail(s))

\* name.replace(/[.;:]+$/, '')
RECURSIVE StripTrailingPunctuation(_)
StripTrailingPunctuation(s) ==
  IF s # <<>> /\ s[Len(s)] \in {".", ";", ":"}
  THEN StripTrailingPunctuation(SubSeq(s, 1, Len(s) - 1))
  ELSE s

\* cleanSupplierName: <<>> for null, <<name>> for a name
cleanSupplierName(raw) ==
  IF raw = <<>> THEN <<>>
  ELSE LET name == trim(StripTrailingPunctuation(trim(BeforeComma(raw))))
       IN  IF Len(name) < 2 THEN <<>>
           ELSE IF \E b \in DOMAIN SUPPLIER_BAD_WORDS :
                     Includes(toLowerCase(name), SUPPLIER_BAD_WORDS[b])
                THEN <<>>
                ELSE <<name>>

\* (?:postavschik|prodavec|ispolnitel), case-insensitive
SupplierLabels ==
  <<<<"p","o","s","t","a","v","s","c","h","i","k">>,
     <<"p","r","o","d","a","v","e","c">>,
     <<"i","s","p","o","l","n","i","t","e","l">>>>

\* (OOO|OAO|ZAO|PAO|NAO|FGUP|IP|AO), in the order of the alternation
OrgForms ==
  <<<<"O","O","O">>,
     <<"O","A","O">>,
     <<"Z","A","O">>,
     <<"P","A","O">>,
     <<"N","A","O">>,
     <<"F","G","U","P">>,
     <<"I","P">>,
     <<"A","O">>>>

\* the angle quotes of the source are written < and >
OpenQuotes == {"<", "\"", "'", "("}
CloseQuotes == {">", "\"", "'", ")"}

BankMarkers ==
  <<<<"b","a","n","k">>,
     <<"b","i","k">>,
     <<"r","/","s">>,
     <<"k","/","s">>>>

\* the number of characters from position i on that satisfy ok, at most cap
RECURSIVE RunLength(_, _, _, _)
RunLength(text, i, ok(_), cap) ==
  IF cap = 0 \/ i > Len(text) \/ ~ok(text[i]) THEN 0
  ELSE 1 + RunLength(text, i + 1, ok, cap - 1)

\* \s*[:\s]*([^\n]{3,60}) from position after on: the separators are taken
\* greedily and given back one at a time until three characters can be captured
RECURSIVE LabelCapture(_, _, _)
LabelCapture(text, after, skip) ==
  LET n == RunLength(text, after + skip, LAMBDA c : c # "\n", 60)
  IN  IF n >= 3 THEN <<SubSeq(text, after + skip, after + skip + n - 1)>>
      ELSE IF skip = 0 THEN <<>>
      ELSE LabelCapture(text, after, skip - 1)

\* the label regular expression tried at position i
LabelAt(text, i) ==
  LET hits == {l \in DOMAIN SupplierLabels :
                 /\ i + Len(SupplierLabels[l]) - 1 <= Len(text)
                 /\ toLowerCase(SubSeq(text, i, i + Len(SupplierLabels[l]) - 1))
                      = SupplierLabels[l]}
  IN  IF hits = {} THEN <<>>
      ELSE LET after == i + Len(SupplierLabels[CHOOSE l \in hits : TRUE])
           IN  LabelCapture(text, after,
                            RunLength(text, after, LAMBDA c : c = ":" \/ IsWhite(c), Len(text)))

\* text.match(/(?:postavschik|prodavec|ispolnitel)\s*[:\s]*([^\n]{3,60})/i):
\* <<>> without a match, <<group 1>> with the leftmost one
RECURSIVE SupplierFieldFrom(_, _)
SupplierFieldFrom(text, i) ==
  IF i > Len(text) THEN <<>>
  ELSE IF LabelAt(text, i) # <<>> THEN LabelAt(text, i)
  ELSE SupplierFieldFrom(text, i + 1)

supplierFieldMatch(text) == SupplierFieldFrom(text, 1)

\* [<"'(]?([^>"')\n]{2,50}) from position start on: <<>> or <<[name, end]>>
OrgName(text, start) ==
  LET n == RunLength(text, start, LAMBDA c : c \notin CloseQuotes \cup {"\n"}, 50)
  IN  IF n >= 2
      THEN <<[name |-> SubSeq(text, start, start + n - 1),
              end |-> IF start + n <= Len(text) /\ text[start + n] \in CloseQuotes
                      THEN start + n ELSE start + n - 1]>>
      ELSE <<>>

\* \s*[<"'(]?(...) from position after on: white space is taken greedily, the
\* opening quote is taken when there is one, and both are given back in turn
RECURSIVE OrgCapture(_, _, _)
OrgCapture(text, after, ws) ==
  LET at == after + ws
      quoted == IF at <= Len(text) /\ text[at] \in OpenQuotes
                THEN OrgName(text, at + 1) ELSE <<>>
  IN  IF quoted # <<>> THEN quoted
      ELSE IF OrgName(text, at) # <<>> THEN OrgName(text, at)
      ELSE IF ws = 0 THEN <<>>
      ELSE OrgCapture(text, after, ws - 1)

\* the legal-form regular expression tried at position i with the alternatives
\* from f on: <<>> or <<[form, name, end]>>
RECURSIVE OrgAt(_, _, _)
OrgAt(text, i, f) ==
  IF f > Len(OrgForms) THEN <<>>
  ELSE LET form == OrgForms[f]
           after == i + Len(form)
           found == IF after - 1 <= Len(text) /\ SubSeq(text, i, after - 1) = form
                    THEN OrgCapture(text, after, RunLength(text, after, IsWhite, Len(text)))
                    ELSE <<>>
       IN  IF found # <<>>
           THEN <<[form |-> form, name |-> found[1].name, end |-> found[1].end]>>
           ELSE OrgAt(text, i, f + 1)

\* the leftmost match of the legal-form regular expression from position i on
RECURSIVE OrgFrom(_, _)
OrgFrom(text, i) ==
  IF i > Len(text) THEN <<>>
  ELSE IF OrgAt(text, i, 1) # <<>> THEN OrgAt(text, i, 1)
  ELSE OrgFrom(text, i + 1)

\* `${m[1]} ${m[2]}`.trim()
OrgCandidate(m) == trim(m.form \o <<" ">> \o m.name)

IsBankText(candidate) ==
  \E b \in DOMAIN BankMarkers : Includes(toLowerCase(candidate), BankMarkers[b])

\* "Priority 2: org form": the while loop over orgRegex.exec(snippet)
RECURSIVE OrgLoop(_, _)
OrgLoop(snippet, lastIndex) ==
  LET m == OrgFrom(snippet, lastIndex + 1)
  IN  IF m = <<>> THEN <<>>
      ELSE IF IsBankText(OrgCandidate(m[1])) THEN OrgLoop(snippet, m[1].end)
      ELSE IF cleanSupplierName(OrgCandidate(m[1])) # <<>>
           THEN cleanSupplierName(OrgCandidate(m[1]))
           ELSE OrgLoop(snippet, m[1].end)

\* extractMetadata, the supplier name: <<>> for null
extractMetadata(text) ==
  LET snippet == SubSeq(text, 1, Min(Len(text), 3000))
      supplierField == supplierFieldMatch(snippet)
      supplierName == IF supplierField # <<>> THEN cleanSupplierName(supplierField[1])
                      ELSE <<>>
  IN  IF supplierName # <<>> THEN supplierName ELSE OrgLoop(snippet, 0)

\* "=== Supplier ===" of extractMetadataFromRows for one cell
SupplierOfCell(text) ==
  LET supplierField == supplierFieldMatch(text)
      orgMatch == OrgFrom(text, 1)
  IN  IF supplierField # <<>> THEN cleanSupplierName(supplierField[1])
      ELSE IF orgMatch # <<>> /\ ~IsBankText(OrgCandidate(orgMatch[1]))
           THEN cleanSupplierName(OrgCandidate(orgMatch[1]))
           ELSE <<>>

\* the cells of metadata text
CellPool ==
  <<<<"P","o","s","t","a","v","s","c","h","i","k",":"," ","O","O","O"," ","R","o","m","a","s","h","k","a",","," ","g","."," ","M","o","s","k","v","a">>,
     <<"I","s","p","o","l","n","i","t","e","l"," ","o","p","l","a","t","y",":"," ","Z","A","O"," ","V","e","k","t","o","r">>,
     <<"O","O","O"," ","B","a","n","k"," ","P","o","l","u","c","h","a","t","e","l","y","a">>,
     <<"A","O"," ","'","L","u","c","h","'">>,
     <<"P","r","o","d","a","v","e","c",":">>,
     <<>>>>

supplierOfCellTable == [c \in DOMAIN CellPool |-> SupplierOfCell(CellPool[c])]

\* the loop over the cells of one row; a cell is an index of CellPool
RECURSIVE SupplierOfRow(_, _, _)
SupplierOfRow(supplierName, row, c) ==
  IF c > Len(row) THEN supplierName
  ELSE IF CellPool[row[c]] = <<>> THEN SupplierOfRow(supplierName, row, c + 1)
  ELSE SupplierOfRow(IF supplierName = <<>> THEN supplierOfCellTable[row[c]]
                     ELSE supplierName, row, c + 1)

\* the loop over the first searchLimit rows
RECURSIVE SupplierOfRows(_, _, _, _)
SupplierOfRows(supplierName, rows, i, searchLimit) ==
  IF i > searchLimit THEN supplierName
  ELSE SupplierOfRows(SupplierOfRow(supplierName, rows[i], 1), rows, i + 1, searchLimit)

\* extractMetadataFromRows, the supplier name: <<>> for null
extractMetadataFromRows(rows) ==
  SupplierOfRows(<<>>, rows, 1, Min(Len(rows), 30))

\* rows of one to MaxCells cells
CellRows == UNION {[1..n -> DOMAIN CellPool] : n \in 1..MaxCells}

\* one row, two rows, and a row below thirty single-cell title rows
MetadataGrids ==
  {<<r>> : r \in CellRows}
    \cup {<<r, <<c>>>> : r \in CellRows, c \in DOMAIN CellPool}
    \cup {[i \in 1..31 |-> IF i = 31 THEN <<c>> ELSE <<5>>] : c \in DOMAIN CellPool}

\* the text of a grid: the cells of a row joined by blanks, the rows by newlines
RECURSIVE JoinWith(_, _)
JoinWith(parts, sep) ==
  IF parts = <<>> THEN <<>>
  ELSE IF Len(parts) = 1 THEN parts[1]
  ELSE parts[1] \o sep \o JoinWith(Tail(parts), sep)

TextOfGrid(rows) ==
  JoinWith([i \in DOMAIN rows |->
              JoinWith([c \in DOMAIN rows[i] |-> CellPool[rows[i][c]]], <<" ">>)],
           <<"\n">>)

MetadataCalls ==
  {[fn |-> f, rows |-> g, returned |-> FALSE, result |-> <<>>] :
     f \in {"extractMetadata", "extractMetadataFromRows"}, g \in MetadataGrids}

MetadataInit ==
  /\ matched_items = <<>>
  /\ matching_rules = <<>>
  /\ pc = "idle"
  /\ run = NoRun
  /\ call \in MetadataCalls

ExtractMetadataReturns ==
  /\ call.fn = "extractMetadata"
  /\ ~call.returned
  /\ call' = [call EXCEPT !.returned = TRUE,
                          !.result = extractMetadata(TextOfGrid(call.rows))]
  /\ UNCHANGED <<matched_items, matching_rules, pc, run>>

ExtractMetadataFromRowsReturns ==
  /\ call.fn = "extractMetadataFromRows"
  /\ ~call.returned
  /\ call' = [call EXCEPT !.returned = TRUE,
                          !.result = extractMetadataFromRows(call.rows)]
  /\ UNCHANGED <<matched_items, matching_rules, pc, run>>

NextMetadata ==
  \/ ExtractMetadataReturns
  \/ ExtractMetadataFromRowsReturns

SpecMetadata == MetadataInit /\ [][NextMetadata]_vars

\* strategy 1 on a text: the label, cleaned
LabelStrategy(text) ==
  IF supplierFieldMatch(text) = <<>> THEN <<>>
  ELSE cleanSupplierName(supplierFieldMatch(text)[1])

\* strategy 2 on a text: the first legal form that is no bank text and
\* survives the cleanup
LegalFormStrategy(text) == OrgLoop(text, 0)

\* the result of the highest-priority strategy that yields a value
FirstStrategy(text) ==
  IF LabelStrategy(text) # <<>> THEN LabelStrategy(text) ELSE LegalFormStrategy(text)

firstStrategyTable == [c \in DOMAIN CellPool |-> FirstStrategy(CellPool[c])]

\* the cells the grid extractor examines, in scan order
RECURSIVE ExaminedCells(_, _)
ExaminedCells(rows, i) ==
  IF i > Min(Len(rows), 30) THEN <<>>
  ELSE SelectSeq(rows[i], LAMBDA c : CellPool[c] # <<>>) \o ExaminedCells(rows, i + 1)

\* C24: the supplier name is the result of the highest-priority strategy that
\* yields a value on the examined text, null only when no strategy yields one:
\* the free-text extractor on its text, the grid extractor on the first
\* examined cell where a strategy yields a value, the legal form being tried
\* on a cell whose label candidate the cleanup discards.
C24_FirstStrategyWins ==
  call.fn \in {"extractMetadata", "extractMetadataFromRows"} /\ call.returned =>
    IF call.fn = "extractMetadata"
    THEN call.result = FirstStrategy(TextOfGrid(call.rows))
    ELSE LET cells == ExaminedCells(call.rows, 1)
             yielding == {k \in DOMAIN cells : firstStrategyTable[cells[k]] # <<>>}
         IN  IF yielding = {} THEN call.result = <<>>
             ELSE call.result =
                    firstStrategyTable[cells[CHOOSE k \in yielding :
                                               \A j \in yielding : k <= j]]

\* ------------------------------------------------------------------------
\* PUT /api/matching/select/:id on tables with two specification items
\* ------------------------------------------------------------------------
\* the most rows of matched_items of the select requests
MaxSelectRows == 3

\* candidate rows of the specification items 1 and 2 as runs and confirmations
\* leave them before any selection by hand: selected or not, a confirmed row
\* selected; the row at place k holds invoice item k
SelectTables ==
  UNION {[1..n -> {r \in [specification_item_id : {1, 2},
                          is_confirmed : {0, 1},
                          is_selected : {0, 1}] :
                     r.is_confirmed = 1 => r.is_selected = 1}] : n \in 1..MaxSelectRows}

SelectInit ==
  /\ \E t \in SelectTables :
       matched_items = [k \in DOMAIN t |->
                          [specification_item_id |-> t[k].specification_item_id,
                           invoice_item_id |-> k,
                           confidence |-> 800,
                           match_type |-> "name_similarity",
                           is_confirmed |-> t[k].is_confirmed,
                           is_selected |-> t[k].is_selected]]
  /\ matching_rules \in {RuleStores[1], RuleStores[6]}
  /\ pc = "idle"
  /\ run = NoRun
  /\ call = NoCall

NextSelect == \E id \in 1..MaxSelectRows : Select(id)

SpecSelect == SelectInit /\ [][NextSelect]_vars

\* C25: select makes the candidate the only selected one of its specification
\* item and changes nothing else: no row appears or disappears, no row changes
\* anything but is_selected, the rows of other specification items do not
\* change at all, and the rule store does not change.
C25_SelectOnlySelects ==
  [][\A id \in 1..MaxSelectRows :
       Select(id) =>
         /\ Len(matched_items') = Len(matched_items)
         /\ {k \in 1..Len(matched_items') :
               /\ matched_items'[k].specification_item_id
                    = matched_items[id].specification_item_id
               /\ matched_items'[k].is_selected = 1} = {id}
         /\ \A k \in 1..Len(matched_items) :
              /\ [matched_items'[k] EXCEPT !.is_selected = 0]
                   = [matched_items[k] EXCEPT !.is_selected = 0]
              /\ matched_items[k].specification_item_id
                   # matched_items[id].specification_item_id
                 => matched_items'[k] = matched_items[k]
         /\ matching_rules' = matching_rules]_vars

\* C25 witness: after a selection a specification item has an unconfirmed
\* selected candidate beside a confirmed one that is not selected, another
\* specification item keeps its selected candidate, and rules are stored.
C25_Witness ==
  /\ matching_rules # <<>>
  /\ \E j, k, l \in 1..Len(matched_items) :
       /\ matched_items[j].specification_item_id = 1
       /\ matched_items[j].is_selected = 1 /\ matched_items[j].is_confirmed = 0
       /\ matched_items[k].specification_item_id = 1
       /\ matched_items[k].is_selected = 0 /\ matched_items[k].is_confirmed = 1
       /\ matched_items[l].specification_item_id = 2
       /\ matched_items[l].is_selected = 1

\* C26: in every reachable state the candidate store holds at most one row
\* for a pair of a specification item and an invoice item, also after
\* matching is run again once a candidate of the pair is confirmed.
C26_OneRowPerPair ==
  \A j, k \in 1..Len(matched_items) :
    /\ matched_items[j].specification_item_id = matched_items[k].specification_item_id
    /\ matched_items[j].invoice_item_id = matched_items[k].invoice_item_id
    => j = k

\* ------------------------------------------------------------------------
\* GET /api/projects/:id/summary
\* ------------------------------------------------------------------------
\* the places of the selected rows of a specification item, in table order
SelectedMatches(specId) ==
  SelectSeq([k \in 1..Len(matched_items) |-> k],
            LAMBDA k : /\ matched_items[k].specification_item_id = specId
                       /\ matched_items[k].is_selected = 1)

\* specification_items si LEFT JOIN matched_items m ON m.specification_item_id
\* = si.id AND m.is_selected = 1, for one specification item: a row for every
\* selected candidate, one row of nulls when there is none
JoinedRows(specId) ==
  LET sel == SelectedMatches(specId)
  IN  IF sel = <<>>
      THEN <<[id |-> specId, section |-> Null, match_id |-> <<>>, is_confirmed |-> <<>>]>>
      ELSE [j \in 1..Len(sel) |->
              [id |-> specId, section |-> Null, match_id |-> <<sel[j]>>,
               is_confirmed |-> <<matched_items[sel[j]].is_confirmed>>]]

\* the query of the summary: WHERE si.project_id = ? ORDER BY si.section, si.id
\* (the specification items of the catalogue have no section)
RECURSIVE SummaryQuery(_)
SummaryQuery(specIds) ==
  IF specIds = {} THEN <<>>
  ELSE LET s == CHOOSE x \in specIds : \A y \in specIds : x <= y
       IN  JoinedRows(s) \o SummaryQuery(specIds \ {s})

\* row.section || 'Bez razdela'
SectionName(row) ==
  IF Truthy(row.section) THEN row.section ELSE <<"B","e","z"," ","r","a","z","d","e","l","a">>

\* the sections of the response: name, itemCount, matchedCount and the items
Summary(projectId) ==
  LET rows == SummaryQuery(SpecItemsOf(projectId))
      names == {SectionName(rows[k]) : k \in 1..Len(rows)}
  IN  [name \in names |->
         LET items == SelectSeq(rows, LAMBDA r : SectionName(r) = name)
         IN  [itemCount |-> Len(items),
              matchedCount |-> Len(SelectSeq(items, LAMBDA r : r.match_id # <<>>)),
              items |-> [k \in 1..Len(items) |->
                           [specId |-> items[k].id,
                            isConfirmed |-> items[k].is_confirmed = <<1>>,
                            hasMatch |-> items[k].match_id # <<>>]]]]

RECURSIVE SumItemCount(_, _)
SumItemCount(sections, names) ==
  IF names = {} THEN 0
  ELSE LET n == CHOOSE x \in names : TRUE
       IN  sections[n].itemCount + SumItemCount(sections, names \ {n})

\* C27: in every reachable state the summary lists each specification item of
\* the project exactly once: the itemCount of the sections add up to the
\* number of specification items, and no specification item is in two items.
C27_SummaryListsOnce ==
  \A p \in Projects :
    \A summary \in {Summary(p)} :
      /\ SumItemCount(summary, DOMAIN summary) = Cardinality(SpecItemsOf(p))
      /\ \A n \in DOMAIN summary :
           \A j, k \in 1..Len(summary[n].items) :
             summary[n].items[j].specId = summary[n].items[k].specId => j = k

\* ------------------------------------------------------------------------
\* The document tables: invoices, invoice_items, specifications and
\* specification_items as the upload, reparse and delete routes change them,
\* with the candidate store that references them.  The matching routes above
\* read the documents from a fixed catalogue; here the tables are state, kept
\* in call.  Every id is an AUTOINCREMENT rowid and is never given twice.
\* ------------------------------------------------------------------------
\* the greatest rowid of invoices and of specifications
MaxDocumentId == 2

\* the greatest rowid of invoice_items and of specification_items
MaxItemId == MaxDocumentId

\* the most confirmations beside these documents
MaxConfirms == MaxDocumentId - 1

\* the most rows of matched_items beside these documents
MaxStoreRows == MaxDocumentId

\* the items a parse of an uploaded invoice file returns, as places in
\* InvoiceRowPool: none or the one row of the file
ParsedInvoiceItems == {<<>>, <<2>>}

\* the items a parse of an uploaded specification file returns, as places in
\* SpecRowPool: none or the one row of the file
ParsedSpecItems == {<<>>, <<1>>}

NoDocuments ==
  [fn |-> "documents",
   next_id |-> [invoices |-> 1, invoice_items |-> 1,
                specifications |-> 1, specification_items |-> 1],
   invoices |-> <<>>,
   invoice_items |-> <<>>,
   specifications |-> {},
   specification_items |-> <<>>]

DocumentsInit ==
  /\ matched_items = <<>>
  /\ matching_rules = <<>>
  /\ pc = "idle"
  /\ run = NoRun
  /\ call = NoDocuments

\* the rows of a table without the rows of the rowids in dead
Without(table, dead) == [id \in DOMAIN table \ dead |-> table[id]]

\* the rows INSERT adds for the items of a parse, with the rowids from next on
Inserted(items, next, parent, key) ==
  [id \in next..(next + Len(items) - 1) |->
     [k \in {key, "row"} |-> IF k = key THEN parent ELSE items[id - next + 1]]]

\* with foreign_keys = OFF nothing follows a deleted row: what
\* C28_NoDanglingCandidate rules out
OnDeleteNoAction(rows, specItemIds, invoiceItemIds) == rows

\* FOREIGN KEY (specification_item_id) REFERENCES specification_items(id) ON
\* DELETE CASCADE, FOREIGN KEY (invoice_item_id) REFERENCES invoice_items(id)
\* ON DELETE CASCADE, under foreign_keys = ON: matched_items once the rows
\* with these rowids are deleted from the two tables
OnDeleteCascade(rows, specItemIds, invoiceItemIds) ==
  SelectSeq(rows, LAMBDA m : /\ m.specification_item_id \notin specItemIds
                             /\ m.invoice_item_id \notin invoiceItemIds)

\* the rowids of the items of an invoice, of a specification
ItemsOfInvoice(invoiceId) ==
  {id \in DOMAIN call.invoice_items : call.invoice_items[id].invoice_id = invoiceId}

ItemsOfSpecification(specId) ==
  {id \in DOMAIN call.specification_items :
     call.specification_items[id].specification_id = specId}

\* POST /api/projects/:id/invoices on a file whose parse returns these items:
\* the invoice is stored with its status and its items in one transaction,
\* also without items
PostInvoice(items) ==
  /\ call.fn = "documents"
  /\ call.next_id.invoices <= MaxDocumentId
  /\ call.next_id.invoice_items + Len(items) - 1 <= MaxItemId
  /\ call' = [call EXCEPT
       !.invoices = @ @@ (call.next_id.invoices :>
                            [status |-> StatusOf([items |-> items]),
                             supplier_id |-> NullId]),
       !.invoice_items = @ @@ Inserted(items, call.next_id.invoice_items,
                                       call.next_id.invoices, "invoice_id"),
       !.next_id.invoices = @ + 1,
       !.next_id.invoice_items = @ + Len(items)]
  /\ UNCHANGED <<matched_items, matching_rules, pc, run>>

\* DELETE /api/invoices/:id
DeleteInvoice(invoiceId) ==
  /\ call.fn = "documents"
  /\ invoiceId \in DOMAIN call.invoices
  /\ call' = [call EXCEPT
       !.invoice_items = Without(@, ItemsOfInvoice(invoiceId)),
       !.invoices = Without(@, {invoiceId})]
  /\ matched_items' = OnDeleteCascade(matched_items, {}, ItemsOfInvoice(invoiceId))
  /\ UNCHANGED <<matching_rules, pc, run>>

\* POST /api/invoices/:id/reparse when the parse returns these items: the
\* items are replaced and the status is set in one transaction
PostReparse(invoiceId, items) ==
  /\ call.fn = "documents"
  /\ invoiceId \in DOMAIN call.invoices
  /\ call.next_id.invoice_items + Len(items) - 1 <= MaxItemId
  /\ call' = [call EXCEPT
       !.invoice_items = Without(@, ItemsOfInvoice(invoiceId))
                           @@ Inserted(items, call.next_id.invoice_items,
                                       invoiceId, "invoice_id"),
       !.invoices[invoiceId].status = StatusOf([items |-> items]),
       !.next_id.invoice_items = @ + Len(items)]
  /\ matched_items' = OnDeleteCascade(matched_items, {}, ItemsOfInvoice(invoiceId))
  /\ UNCHANGED <<matching_rules, pc, run>>

\* POST /api/projects/:id/specifications on a file whose parse returns these
\* items: 400 and nothing stored without items
PostSpecification(items) ==
  /\ call.fn = "documents"
  /\ items # <<>>
  /\ call.next_id.specifications <= MaxDocumentId
  /\ call.next_id.specification_items + Len(items) - 1 <= MaxItemId
  /\ call' = [call EXCEPT
       !.specifications = @ \cup {call.next_id.specifications},
       !.specification_items = @ @@ Inserted(items, call.next_id.specification_items,
                                             call.next_id.specifications,
                                             "specification_id"),
       !.next_id.specifications = @ + 1,
       !.next_id.specification_items = @ + Len(items)]
  /\ UNCHANGED <<matched_items, matching_rules, pc, run>>

\* DELETE /api/specifications/:id
DeleteSpecification(specId) ==
  /\ call.fn = "documents"
  /\ specId \in call.specifications
  /\ call' = [call EXCEPT
       !.specification_items = Without(@, ItemsOfSpecification(specId)),
       !.specifications = @ \ {specId}]
  /\ matched_items' = OnDeleteCascade(matched_items, ItemsOfSpecification(specId), {})
  /\ UNCHANGED <<matching_rules, pc, run>>

\* the rows of a table in rowid order, each as the row of its pool with its id
RECURSIVE StoredItems(_, _, _)
StoredItems(table, pool, ids) ==
  IF ids = {} THEN <<>>
  ELSE LET id == CHOOSE x \in ids : \A y \in ids : x <= y
       IN  <<WithId(pool[table[id].row], id)>> \o StoredItems(table, pool, ids \ {id})

\* POST /api/projects/:id/matching/run on the stored documents, the whole
\* handler; all documents belong to the one project
PostMatchingRun ==
  /\ call.fn = "documents"
  /\ \E kept \in {SelectSeq(matched_items, LAMBDA m : m.is_confirmed # 0)} :
     \E candidates \in
          {runMatchingOn(StoredItems(call.specification_items, SpecRowPool,
                                     DOMAIN call.specification_items),
                         StoredItems(call.invoice_items, InvoiceRowPool,
                                     DOMAIN call.invoice_items),
                         matching_rules)} :
       /\ Len(kept) + Len(candidates) <= MaxStoreRows
       /\ matched_items' \in SelectBestLoop(InsertAll(kept, candidates), SpecIdsOf(candidates))
  /\ UNCHANGED <<matching_rules, pc, run, call>>

\* PUT /api/matching/:id/confirm on the stored documents
PutConfirm(matchId) ==
  /\ call.fn = "documents"
  /\ matchId \in MatchIds
  /\ TotalTimesUsed(matching_rules) < MaxConfirms
  /\ matched_items' =
       ConfirmAndSelect(Deselect(matched_items, matched_items[matchId].specification_item_id),
                        matchId)
  /\ matching_rules' =
       LearnExact(matching_rules,
                  Normalize(SpecRowPool[call.specification_items[
                                          matched_items[matchId].specification_item_id].row].name),
                  Normalize(InvoiceRowPool[call.invoice_items[
                                             matched_items[matchId].invoice_item_id].row].name),
                  call.invoices[call.invoice_items[
                                  matched_items[matchId].invoice_item_id].invoice_id].supplier_id)
  /\ UNCHANGED <<pc, run, call>>

NextDocuments ==
  \/ \E items \in ParsedInvoiceItems : PostInvoice(items)
  \/ \E id \in 1..MaxDocumentId : DeleteInvoice(id)
  \/ \E id \in 1..MaxDocumentId, items \in ParsedInvoiceItems : PostReparse(id, items)
  \/ \E items \in ParsedSpecItems : PostSpecification(items)
  \/ \E id \in 1..MaxDocumentId : DeleteSpecification(id)
  \/ PostMatchingRun
  \/ \E id \in 1..MaxStoreRows : PutConfirm(id)

SpecDocuments == DocumentsInit /\ [][NextDocuments]_vars

\* C28: after any sequence of invoice uploads, deletes and reparses,
\* specification uploads and deletes and matching operations, every candidate
\* row references a stored specification item and a stored invoice item.
C28_NoDanglingCandidate ==
  call.fn = "documents" =>
    \A k \in 1..Len(matched_items) :
      /\ matched_items[k].specification_item_id \in DOMAIN call.specification_items
      /\ matched_items[k].invoice_item_id \in DOMAIN call.invoice_items

\* C28 witness: a candidate was confirmed (a rule is stored) and went with its
\* deleted items (no stored candidate is confirmed), while candidates of the
\* stored items are there.
C28_Witness ==
  /\ call.fn = "documents"
  /\ matching_rules # <<>>
  /\ matched_items # <<>>
  /\ \A k \in 1..Len(matched_items) : matched_items[k].is_confirmed = 0
  /\ call.next_id.invoice_items > Cardinality(DOMAIN call.invoice_items) + 1

\* C29: after any sequence of uploads and reparses the status of a stored
\* invoice is 'parsed' exactly when it has a stored item and 'needs_mapping'
\* exactly when it has none.
C29_StatusTellsItems ==
  call.fn = "documents" =>
    \A id \in DOMAIN call.invoices :
      /\ call.invoices[id].status = "parsed" <=> ItemsOfInvoice(id) # {}
      /\ call.invoices[id].status = "needs_mapping" <=> ItemsOfInvoice(id) = {}

\* C29 witness: an upload without items stored its invoice as needs_mapping,
\* and another invoice is parsed with the items of a reparse.
C29_Witness ==
  /\ call.fn = "documents"
  /\ \E a, b \in DOMAIN call.invoices :
       /\ call.invoices[a].status = "needs_mapping" /\ ItemsOfInvoice(a) = {}
       /\ call.invoices[b].status = "parsed"
       /\ \E id \in ItemsOfInvoice(b) : id > 1
       /\ call.next_id.invoice_items > Cardinality(ItemsOfInvoice(b)) + 1

\* C30: in every mapping detectColumns returns, two fields that are set have
\* different column indices: no cell gives its column to two fields.
C30_DistinctColumns ==
  Returned("detectColumns") /\ call.result # <<>> =>
    \A f, g \in Range(COLUMN_FIELDS) :
      /\ f # g
      /\ call.result[1].mapping[f] # <<>>
      /\ call.result[1].mapping[g] # <<>>
      => call.result[1].mapping[f] # call.result[1].mapping[g]

====
